---------------------------- MODULE Spec2Model ----------------------------
(***************************************************************************)
(* A model of the Satisfactory recipe system (recipes.js): the lookup      *)
(* tables built at module load by _populate_lookups and the public query   *)
(* functions that read them.                                               *)
(*                                                                         *)
(* Part names are sequences of words ("Iron Ingot" is <<"Iron","Ingot">>), *)
(* so that String.prototype.includes is computed (at word granularity) and *)
(* not looked up.  A JavaScript object that the code iterates is an        *)
(* ordered sequence of [key, val] entries (insertion order, an overwrite   *)
(* keeps the key's place); an object or Map that is only indexed is a      *)
(* finite function.                                                        *)
(***************************************************************************)
EXTENDS Integers, Sequences, FiniteSets, TLC

(***************************************************************************)
(* Bounds of the model.                                                    *)
(***************************************************************************)
\* the longest RECIPES_DATA.recipes table drawn from a pool
MaxRecipes == 3

(***************************************************************************)
(* Part and machine names.                                                 *)
(***************************************************************************)
MWm == <<"MWm">>
IronOre == <<"Iron", "Ore">>
IronIngot == <<"Iron", "Ingot">>
IronPlate == <<"Iron", "Plate">>
IronRod == <<"Iron", "Rod">>
CopperOre == <<"Copper", "Ore">>
CopperIngot == <<"Copper", "Ingot">>
Coal == <<"Coal">>
Leaves == <<"Leaves">>
Biomass == <<"Biomass">>
SolidBiofuel == <<"Solid", "Biofuel">>
LiquidBiofuel == <<"Liquid", "Biofuel">>
Water == <<"Water">>
CrudeOil == <<"Crude", "Oil">>
Fuel == <<"Fuel">>
EmptyCanister == <<"Empty", "Canister">>
PackagedWater == <<"Packaged", "Water">>
PackagedFuel == <<"Packaged", "Fuel">>
SmartPlating == <<"Smart", "Plating">>
VersatileFramework == <<"Versatile", "Framework">>
IronRebar == <<"Iron", "Rebar">>
Motor == <<"Motor">>

(***************************************************************************)
(* JavaScript objects.                                                     *)
(***************************************************************************)
\* {} of an object that is only indexed
EmptyMap == [k \in {} |-> 0]

\* obj[k] = v of an object that is only indexed
Put(f, k, v) == [x \in (DOMAIN f) \cup {k} |-> IF x = k THEN v ELSE f[x]]

\* k in obj, for an object whose iteration order matters
ObjHas(o, k) == \E i \in 1..Len(o) : o[i].key = k

\* obj[k]
ObjGet(o, k) == o[CHOOSE i \in 1..Len(o) : o[i].key = k].val

\* obj[k] = v: a new key goes last, an existing key keeps its place
ObjSet(o, k, v) ==
    IF ObjHas(o, k)
    THEN [i \in 1..Len(o) |-> IF o[i].key = k THEN [key |-> k, val |-> v] ELSE o[i]]
    ELSE Append(o, [key |-> k, val |-> v])

\* {k: v}
Obj1(k, v) == << [key |-> k, val |-> v] >>

\* Object.keys(obj)
ObjKeys(o) == [i \in 1..Len(o) |-> o[i].key]

\* String.prototype.includes, on words: sub occurs in part as a contiguous run
includes(part, sub) ==
    \E i \in 0..(Len(part) - Len(sub)) :
        \A j \in 1..Len(sub) : part[i + j] = sub[j]

\* new Set(iterable) / Set.add over an array: the elements in first-insertion order
RECURSIVE AddAll(_, _)
AddAll(order, items) ==
    IF items = <<>> THEN order
    ELSE AddAll(IF \E i \in 1..Len(order) : order[i] = Head(items)
                THEN order ELSE Append(order, Head(items)),
                Tail(items))

\* the elements of a sequence
Range(s) == {s[i] : i \in 1..Len(s)}

(***************************************************************************)
(* Static data tables.                                                     *)
(***************************************************************************)
\* LOADS_DATA: machine -> power load
LOADS_DATA ==
    ("Smelter" :> 4) @@ ("Constructor" :> 4) @@ ("Foundry" :> 16) @@
    ("Assembler" :> 15) @@ ("Refinery" :> 30) @@ ("Packager" :> 10)

\* the keys of FLUIDS_DATA
FLUIDS_DATA == {Water, CrudeOil, Fuel, LiquidBiofuel}

\* PROJECT_ASSEMBLY_PARTS (an excerpt)
PROJECT_ASSEMBLY_PARTS == {SmartPlating, VersatileFramework}

\* POWER_RECIPES_DATA (an excerpt): machine -> recipe name -> {in, out}
POWER_RECIPES_DATA ==
    << [key |-> "Biomass Burner",
        val |-> << [key |-> "Power (Leaves)",
                    val |-> [in |-> Obj1(Leaves, 120), out |-> Obj1(MWm, 30)]],
                   [key |-> "Power (Biomass)",
                    val |-> [in |-> Obj1(SolidBiofuel, 4), out |-> Obj1(MWm, 30)]] >>],
       [key |-> "Coal-Powered Generator",
        val |-> << [key |-> "Coal Power",
                    val |-> [in |-> Obj1(Coal, 15), out |-> Obj1(MWm, 75)]] >>],
       [key |-> "Fuel-Powered Generator",
        val |-> << [key |-> "Power (Fuel)",
                    val |-> [in |-> Obj1(Fuel, 20), out |-> Obj1(MWm, 250)]] >>] >>

(***************************************************************************)
(* Initialization: _populate_lookups and its helpers.                      *)
(*                                                                         *)
(* A row of RECIPES_DATA.recipes is                                        *)
(*   [name, ingredients, products, time, producedIn, inMachine]            *)
(* with ingredients and products as item -> amount per cycle.  Items and   *)
(* buildings are keyed by their display names here (the itemNames and      *)
(* buildingNames tables resolve every class name).                         *)
(***************************************************************************)
\* inputs[itemName] = amount * (60.0 / time), over a list of {item, amount};
\* the cycle times of the pools divide 60
RECURSIVE PerMinute(_, _, _)
PerMinute(obj, list, time) ==
    IF list = <<>> THEN obj
    ELSE PerMinute(ObjSet(obj, Head(list).item, Head(list).amount * (60 \div time)),
                   Tail(list), time)

\* transformed[machineName][recipeName] = data
SetRecipe(transformed, machine, name, data) ==
    ObjSet(transformed, machine,
           ObjSet(IF ObjHas(transformed, machine) THEN ObjGet(transformed, machine) ELSE <<>>,
                  name, data))

\* the loop over recipeData.producedIn
RECURSIVE TransformMachines(_, _, _, _)
TransformMachines(transformed, machines, name, data) ==
    IF machines = <<>> THEN transformed
    ELSE TransformMachines(SetRecipe(transformed, Head(machines), name, data),
                           Tail(machines), name, data)

\* the loop over RECIPES_DATA.recipes
RECURSIVE TransformRecipes(_, _)
TransformRecipes(transformed, recipes) ==
    IF recipes = <<>> THEN transformed
    ELSE LET r == Head(recipes) IN
         IF ~r.inMachine \/ Len(r.producedIn) = 0
         THEN TransformRecipes(transformed, Tail(recipes))
         ELSE TransformRecipes(
                  TransformMachines(transformed, r.producedIn, r.name,
                                    [in |-> PerMinute(<<>>, r.ingredients, r.time),
                                     out |-> PerMinute(<<>>, r.products, r.time)]),
                  Tail(recipes))

transform_recipes_data(data) == TransformRecipes(<<>>, data.recipes)

\* the inner loop of _merge_power_recipes, over one machine's recipes
RECURSIVE MergeMachine(_, _, _)
MergeMachine(transformed, machine, recipes) ==
    IF recipes = <<>> THEN transformed
    ELSE MergeMachine(SetRecipe(transformed, machine, Head(recipes).key, Head(recipes).val),
                      machine, Tail(recipes))

RECURSIVE MergePower(_, _)
MergePower(transformed, power) ==
    IF power = <<>> THEN transformed
    ELSE MergePower(MergeMachine(IF ObjHas(transformed, Head(power).key) THEN transformed
                                 ELSE ObjSet(transformed, Head(power).key, <<>>),
                                 Head(power).key, Head(power).val),
                    Tail(power))

merge_power_recipes(transformed) == MergePower(transformed, POWER_RECIPES_DATA)

\* _collect_recipe_parts that leaves the inputs out
collect_recipe_parts_outputs_only(all_parts, recipe_data) ==
    AddAll(all_parts, ObjKeys(recipe_data.out))

\* _collect_recipe_parts: the inputs, then the outputs, join _ALL_PARTS
collect_recipe_parts(all_parts, recipe_data) ==
    AddAll(AddAll(all_parts, ObjKeys(recipe_data.in)), ObjKeys(recipe_data.out))

\* _index_recipe_outputs that starts a new bucket for every recipe
RECURSIVE IndexOutputs_resets_bucket(_, _, _, _)
IndexOutputs_resets_bucket(by_output, outs, machine, recipe_name) ==
    IF outs = <<>> THEN by_output
    ELSE LET output == Head(outs).key
             amount == Head(outs).val
             rates  == IF output \in DOMAIN by_output THEN by_output[output] ELSE EmptyMap
         IN IndexOutputs_resets_bucket(
                Put(by_output, output, Put(rates, amount, << <<machine, recipe_name>> >>)),
                Tail(outs), machine, recipe_name)

\* _index_recipe_outputs: [machine, recipe_name] joins the bucket of each output's rate
RECURSIVE IndexOutputs(_, _, _, _)
IndexOutputs(by_output, outs, machine, recipe_name) ==
    IF outs = <<>> THEN by_output
    ELSE LET output == Head(outs).key
             amount == Head(outs).val
             rates  == IF output \in DOMAIN by_output THEN by_output[output] ELSE EmptyMap
             bucket == IF amount \in DOMAIN rates THEN rates[amount] ELSE <<>>
         IN IndexOutputs(
                Put(by_output, output, Put(rates, amount, Append(bucket, <<machine, recipe_name>>))),
                Tail(outs), machine, recipe_name)

index_recipe_outputs(by_output, recipe_data, machine, recipe_name) ==
    IndexOutputs(by_output, recipe_data.out, machine, recipe_name)

\* _add_power_consumption
add_power_consumption(inputs, machine) ==
    IF machine \in DOMAIN LOADS_DATA
    THEN ObjSet(inputs, MWm,
                (IF ObjHas(inputs, MWm) THEN ObjGet(inputs, MWm) ELSE 0) + LOADS_DATA[machine])
    ELSE inputs

\* _create_recipe_object
create_recipe_object(machine, recipe_data) ==
    [machine |-> machine,
     inputs  |-> add_power_consumption(recipe_data.in, machine),
     outputs |-> recipe_data.out]

\* the tables the recipe loop of _populate_lookups fills, before the first recipe
EmptyTables ==
    [BY_OUTPUT |-> EmptyMap, BY_MACHINE |-> <<>>, ALL_PARTS |-> <<>>,
     ALL_RECIPES |-> <<>>, RECIPE_NAMES |-> EmptyMap, created |-> 0]

\* _register_recipe: _BY_MACHINE, _ALL_RECIPES and _RECIPE_NAMES take the recipe
register_recipe(t, recipe, recipe_name, machine) ==
    [t EXCEPT !.BY_MACHINE = SetRecipe(t.BY_MACHINE, machine, recipe_name, recipe),
              !.ALL_RECIPES = ObjSet(t.ALL_RECIPES, recipe_name, recipe),
              !.RECIPE_NAMES = Put(t.RECIPE_NAMES, recipe.id, recipe_name)]

\* _process_single_recipe; new Recipe(...) makes an object of a new identity,
\* here the ordinal of its creation
process_single_recipe(t, machine, recipe_name, recipe_data) ==
    LET recipe_obj == [id |-> t.created + 1] @@ create_recipe_object(machine, recipe_data)
    IN register_recipe(
           [t EXCEPT !.ALL_PARTS = collect_recipe_parts(t.ALL_PARTS, recipe_data),
                     !.BY_OUTPUT = index_recipe_outputs(t.BY_OUTPUT, recipe_data,
                                                        machine, recipe_name),
                     !.created = t.created + 1],
           recipe_obj, recipe_name, machine)

\* the inner loop of _populate_lookups, over one machine's recipes
RECURSIVE ProcessRecipes(_, _, _)
ProcessRecipes(t, machine, recipes) ==
    IF recipes = <<>> THEN t
    ELSE ProcessRecipes(process_single_recipe(t, machine, Head(recipes).key, Head(recipes).val),
                        machine, Tail(recipes))

\* the outer loop of _populate_lookups, over the machines
RECURSIVE ProcessMachines(_, _)
ProcessMachines(t, transformed) ==
    IF transformed = <<>> THEN t
    ELSE ProcessMachines(ProcessRecipes(t, Head(transformed).key, Head(transformed).val),
                         Tail(transformed))

\* _build_extracted_parts: every allowedResources entry of every miner
build_extracted_parts(data) ==
    UNION {Range(data.miners[i].allowedResources) : i \in 1..Len(data.miners)}

\* _is_base_part without the extraction whitelist
is_base_part_unproduced(part, by_output, extracted) ==
    ~(part \in DOMAIN by_output)

\* _is_base_part
is_base_part(part, by_output, extracted) ==
    ~(part \in DOMAIN by_output) \/ part \in extracted

\* _is_terminal_part that looks at the outputs of the recipes
is_terminal_part_by_outputs(part, all_recipes) ==
    ~\E i \in 1..Len(all_recipes) : ObjHas(all_recipes[i].val.outputs, part)

\* _is_terminal_part
is_terminal_part(part, all_recipes) ==
    ~\E i \in 1..Len(all_recipes) : ObjHas(all_recipes[i].val.inputs, part)

\* _should_enable_recipe_by_default
should_enable_recipe_by_default(recipe, machine) ==
    ~ObjHas(recipe.outputs, MWm) /\ machine # "Packager" /\ machine # "Converter"

\* _build_default_enablement_set
build_default_enablement_set(by_machine) ==
    UNION {{m.val[j].key :
               j \in {k \in 1..Len(m.val) : should_enable_recipe_by_default(m.val[k].val, m.key)}} :
           m \in Range(by_machine)}

\* the words of the part names and their lower-case spelling
LOWER_CASE ==
    << <<"MWm", "mwm">>, <<"Iron", "iron">>, <<"Ore", "ore">>, <<"Ingot", "ingot">>,
       <<"Plate", "plate">>, <<"Rod", "rod">>, <<"Copper", "copper">>, <<"Coal", "coal">>,
       <<"Leaves", "leaves">>, <<"Biomass", "biomass">>, <<"Solid", "solid">>,
       <<"Biofuel", "biofuel">>, <<"Liquid", "liquid">>, <<"Water", "water">>,
       <<"Crude", "crude">>, <<"Oil", "oil">>, <<"Fuel", "fuel">>, <<"Empty", "empty">>,
       <<"Canister", "canister">>, <<"Packaged", "packaged">>, <<"Smart", "smart">>,
       <<"Plating", "plating">>, <<"Versatile", "versatile">>, <<"Framework", "framework">>,
       <<"Rebar", "rebar">>, <<"Motor", "motor">>, <<"IRON", "iron">>, <<"PLATE", "plate">> >>

\* String.prototype.toLowerCase, word by word; a word without capitals is its own
toLowerCase(part) ==
    [i \in 1..Len(part) |->
        IF \E j \in 1..Len(LOWER_CASE) : LOWER_CASE[j][1] = part[i]
        THEN LOWER_CASE[CHOOSE j \in 1..Len(LOWER_CASE) : LOWER_CASE[j][1] = part[i]][2]
        ELSE part[i]]

\* _build_material_name_lookup that keeps the first part of a lower-case spelling
RECURSIVE build_material_name_lookup_first_wins(_, _)
build_material_name_lookup_first_wins(lookup, all_parts) ==
    IF all_parts = <<>> THEN lookup
    ELSE build_material_name_lookup_first_wins(
             IF toLowerCase(Head(all_parts)) \in DOMAIN lookup THEN lookup
             ELSE Put(lookup, toLowerCase(Head(all_parts)), Head(all_parts)),
             Tail(all_parts))

\* _build_material_name_lookup: the loop over _ALL_PARTS, a later part of the
\* same lower-case spelling replacing an earlier one
RECURSIVE build_material_name_lookup(_, _)
build_material_name_lookup(lookup, all_parts) ==
    IF all_parts = <<>> THEN lookup
    ELSE build_material_name_lookup(Put(lookup, toLowerCase(Head(all_parts)), Head(all_parts)),
                                    Tail(all_parts))

\* the schematic names in the order of String.prototype.localeCompare
COLLATION == <<"Basic Steel Production", "Coal Power", "HUB Upgrade 2", "Pure Iron Ingot">>

\* a.localeCompare(b): negative, zero or positive
localeCompare(a, b) ==
    (CHOOSE i \in 1..Len(COLLATION) : COLLATION[i] = a)
        - (CHOOSE i \in 1..Len(COLLATION) : COLLATION[i] = b)

\* the comparator of schematicsToProcess.sort: by tier, then by name
CompareSchematics(a, b) ==
    IF a.tier # b.tier THEN a.tier - b.tier ELSE localeCompare(a.name, b.name)

\* Array.prototype.sort, which is stable: each element goes behind the ones that
\* do not compare greater
RECURSIVE SortSchematics(_, _)
SortSchematics(sorted, rest) ==
    IF rest = <<>> THEN sorted
    ELSE LET s == Head(rest)
             n == Cardinality({i \in 1..Len(sorted) : CompareSchematics(sorted[i], s) <= 0})
         IN SortSchematics(SubSeq(sorted, 1, n) \o <<s>> \o SubSeq(sorted, n + 1, Len(sorted)),
                           Tail(rest))

\* schematicsToProcess: the schematics that are no alternates, sorted
schematicsToProcess(data) ==
    SortSchematics(<<>>, SelectSeq(data.schematics, LAMBDA s : ~s.alternate))

\* the loop over schematicData.unlock.recipes of the first pass; a class name
\* without a row in RECIPES_DATA.recipes is passed over
RECURSIVE UnlockRecipes(_, _, _, _)
UnlockRecipes(u, data, schematic, classNames) ==
    IF classNames = <<>> THEN u
    ELSE LET rows == SelectSeq(data.recipes, LAMBDA r : r.className = Head(classNames))
         IN IF rows = <<>> THEN UnlockRecipes(u, data, schematic, Tail(classNames))
            ELSE LET recipeData == rows[1]
                     m == IF recipeData.forBuilding /\ Len(recipeData.products) > 0
                          THEN Put(u.machineToSchematic, recipeData.products[1].item,
                                   [schematic |-> schematic.name, tier |-> schematic.tier])
                          ELSE u.machineToSchematic
                 IN UnlockRecipes(
                        IF recipeData.inMachine
                        THEN [u EXCEPT !.machineToSchematic = m,
                                       !.recipeNames = Append(@, recipeData.name),
                                       !.unlockedRecipes = @ \cup {recipeData.name}]
                        ELSE [u EXCEPT !.machineToSchematic = m],
                        data, schematic, Tail(classNames))

\* _SCHEMATIC_RECIPES_LOOKUP[tier][schematicName] = recipeNames
SetSchematic(lookup, tier, schematicName, recipeNames) ==
    Put(lookup, tier,
        ObjSet(IF tier \in DOMAIN lookup THEN lookup[tier] ELSE <<>>, schematicName, recipeNames))

\* the first pass of _build_schematic_recipes_lookup, over schematicsToProcess
RECURSIVE FirstPass(_, _, _)
FirstPass(u, data, schematics) ==
    IF schematics = <<>> THEN u
    ELSE LET v == UnlockRecipes([u EXCEPT !.recipeNames = <<>>], data, Head(schematics),
                                Head(schematics).recipes)
         IN FirstPass(IF Len(v.recipeNames) > 0
                      THEN [v EXCEPT !.lookup = SetSchematic(v.lookup, Head(schematics).tier,
                                                             Head(schematics).name, v.recipeNames)]
                      ELSE v,
                      data, Tail(schematics))

\* the second pass, over RECIPES_DATA.recipes: a machine recipe that no schematic
\* unlocks goes to the schematic of the first of its machines that has one, and
\* to _UNLISTED_RECIPES if none has
RECURSIVE SecondPass(_, _)
SecondPass(u, recipes) ==
    IF recipes = <<>> THEN u
    ELSE LET recipeData == Head(recipes)
             known == SelectSeq(recipeData.producedIn,
                                LAMBDA machine : machine \in DOMAIN u.machineToSchematic)
         IN IF ~recipeData.inMachine \/ recipeData.name \in u.unlockedRecipes
            THEN SecondPass(u, Tail(recipes))
            ELSE IF known = <<>>
            THEN SecondPass([u EXCEPT !.unlisted = @ \cup {recipeData.name}], Tail(recipes))
            ELSE LET to == u.machineToSchematic[known[1]]
                     had == IF to.tier \in DOMAIN u.lookup /\ ObjHas(u.lookup[to.tier], to.schematic)
                            THEN ObjGet(u.lookup[to.tier], to.schematic) ELSE <<>>
                 IN SecondPass([u EXCEPT !.lookup = SetSchematic(u.lookup, to.tier, to.schematic,
                                                                Append(had, recipeData.name))],
                               Tail(recipes))

\* _build_schematic_recipes_lookup: [lookup, unlisted] are the two tables it fills
build_schematic_recipes_lookup(data) ==
    SecondPass(FirstPass([lookup |-> EmptyMap, unlisted |-> {}, unlockedRecipes |-> {},
                          machineToSchematic |-> EmptyMap, recipeNames |-> <<>>],
                         data, schematicsToProcess(data)),
               data.recipes)

(***************************************************************************)
(* The state: the module-level tables, the caller's position and the value *)
(* the last query handed back.                                             *)
(***************************************************************************)
VARIABLES
    RECIPES_DATA,               \* the imported snapshot: [recipes, miners, schematics]
    TRANSFORMED_RECIPES_DATA,   \* machine -> recipe name -> {in, out}
    BY_OUTPUT,                  \* output -> amount -> list of [machine, recipe_name]
    BY_MACHINE,                 \* machine -> recipe name -> Recipe
    ALL_PARTS,                  \* Set of part names, in insertion order
    ALL_RECIPES,                \* recipe name -> Recipe
    RECIPE_NAMES,               \* Map: Recipe identity -> recipe name
    BASE_PARTS,
    TERMINAL_PARTS,
    DEFAULT_ENABLEMENT_SET,
    EXTRACTED_PARTS,
    MATERIAL_NAME_LOOKUP,       \* Map: lower-case part name -> part name; null before the load
    SCHEMATIC_RECIPES_LOOKUP,   \* tier -> schematic name -> list of recipe names
    UNLISTED_RECIPES,
    pc,                         \* "load", "ready" or "returned"
    ret                         \* the last call and its outcome

tables == <<TRANSFORMED_RECIPES_DATA, BY_OUTPUT, BY_MACHINE, ALL_PARTS, ALL_RECIPES,
            RECIPE_NAMES, BASE_PARTS, TERMINAL_PARTS, DEFAULT_ENABLEMENT_SET,
            EXTRACTED_PARTS, MATERIAL_NAME_LOOKUP, SCHEMATIC_RECIPES_LOOKUP,
            UNLISTED_RECIPES>>

vars == <<RECIPES_DATA, tables, pc, ret>>

\* no call made yet
NoCall == [op |-> "none"]

\* _populate_lookups, run once when the module is loaded
populate_lookups ==
    /\ pc = "load"
    /\ LET transformed == merge_power_recipes(transform_recipes_data(RECIPES_DATA))
           t == ProcessMachines(EmptyTables, transformed)
           extracted == build_extracted_parts(RECIPES_DATA)
           schematic == build_schematic_recipes_lookup(RECIPES_DATA)
       IN /\ TRANSFORMED_RECIPES_DATA' = transformed
          /\ BY_OUTPUT' = t.BY_OUTPUT
          /\ BY_MACHINE' = t.BY_MACHINE
          /\ ALL_PARTS' = t.ALL_PARTS
          /\ ALL_RECIPES' = t.ALL_RECIPES
          /\ RECIPE_NAMES' = t.RECIPE_NAMES
          /\ EXTRACTED_PARTS' = extracted
          /\ BASE_PARTS' = {p \in Range(t.ALL_PARTS) : is_base_part(p, t.BY_OUTPUT, extracted)}
          /\ TERMINAL_PARTS' = {p \in Range(t.ALL_PARTS) : is_terminal_part(p, t.ALL_RECIPES)}
          /\ DEFAULT_ENABLEMENT_SET' = build_default_enablement_set(t.BY_MACHINE)
          /\ MATERIAL_NAME_LOOKUP' = build_material_name_lookup(EmptyMap, t.ALL_PARTS)
          /\ SCHEMATIC_RECIPES_LOOKUP' = schematic.lookup
          /\ UNLISTED_RECIPES' = schematic.unlisted
    /\ pc' = "ready"
    /\ UNCHANGED <<RECIPES_DATA, ret>>

(***************************************************************************)
(* The public query functions.  An enablement set is [null |-> TRUE] for   *)
(* null or an omitted argument, and [null |-> FALSE, names |-> S] for a    *)
(* Set of recipe names.                                                    *)
(***************************************************************************)
AllEnabled == [null |-> TRUE]

\* _CONVEYORS
CONVEYORS == <<60, 120, 270, 480>>

\* get_conveyor_rate: _CONVEYORS[speed], speed counted from 0
get_conveyor_rate(speed) ==
    IF speed + 1 \in DOMAIN CONVEYORS THEN CONVEYORS[speed + 1] ELSE "undefined"

\* get_load: LOADS_DATA[machine]
get_load(machine) ==
    IF machine \in DOMAIN LOADS_DATA THEN LOADS_DATA[machine] ELSE "undefined"

\* get_all_recipes_by_machine: a new object for each machine, holding the
\* Recipe objects of _BY_MACHINE themselves
get_all_recipes_by_machine == BY_MACHINE

\* get_all_recipes: a new object holding the Recipe objects of _ALL_RECIPES themselves
get_all_recipes == ALL_RECIPES

\* _is_recipe_enabled that takes an empty Set for no Set
is_recipe_enabled_empty_is_all(recipe_name, enablement_set) ==
    enablement_set.null \/ enablement_set.names = {} \/ recipe_name \in enablement_set.names

\* _is_recipe_enabled
is_recipe_enabled(recipe_name, enablement_set) ==
    enablement_set.null \/ recipe_name \in enablement_set.names

\* _create_recipe_from_raw that adds the power load as _create_recipe_object does
create_recipe_from_raw_with_power(machine, recipe_name) ==
    LET raw_recipe == ObjGet(ObjGet(TRANSFORMED_RECIPES_DATA, machine), recipe_name)
    IN [id |-> 0, machine |-> machine,
        inputs |-> add_power_consumption(raw_recipe.in, machine), outputs |-> raw_recipe.out]

\* _create_recipe_from_raw: a Recipe over the raw inputs, without the power load;
\* a new object, whose identity (0) is no key of _RECIPE_NAMES
create_recipe_from_raw(machine, recipe_name) ==
    LET raw_recipe == ObjGet(ObjGet(TRANSFORMED_RECIPES_DATA, machine), recipe_name)
    IN [id |-> 0, machine |-> machine, inputs |-> raw_recipe.in, outputs |-> raw_recipe.out]

\* the inner loop of get_recipes_for: the enabled pairs of one bucket, in order
RECURSIVE EnabledOf(_, _)
EnabledOf(pairs, enablement_set) ==
    IF pairs = <<>> THEN <<>>
    ELSE LET machine == Head(pairs)[1]
             recipe_name == Head(pairs)[2]
         IN (IF is_recipe_enabled(recipe_name, enablement_set)
             THEN << <<recipe_name, create_recipe_from_raw(machine, recipe_name)>> >>
             ELSE <<>>) \o EnabledOf(Tail(pairs), enablement_set)

\* get_recipes_for that makes the list of an amount before it looks for an enabled
\* recipe, so that an amount with none keeps an empty list
get_recipes_for_keeps_empty(output, enablement_set) ==
    IF ~(output \in DOMAIN BY_OUTPUT) THEN EmptyMap
    ELSE [a \in DOMAIN BY_OUTPUT[output] |-> EnabledOf(BY_OUTPUT[output][a], enablement_set)]

\* get_recipes_for: amount -> list of [recipe_name, recipe]; an amount with no
\* enabled recipe gets no key
get_recipes_for(output, enablement_set) ==
    IF ~(output \in DOMAIN BY_OUTPUT) THEN EmptyMap
    ELSE LET amounts == {a \in DOMAIN BY_OUTPUT[output] :
                            EnabledOf(BY_OUTPUT[output][a], enablement_set) # <<>>}
         IN [a \in amounts |-> EnabledOf(BY_OUTPUT[output][a], enablement_set)]

\* Math.min in the place of Math.max
Max_is_min(S) == CHOOSE m \in S : \A x \in S : m <= x

\* Math.max(...amounts) of a non-empty list
Max(S) == CHOOSE m \in S : \A x \in S : x <= m

\* get_recipe_for that takes the last recipe of the best bucket
get_recipe_for_last(output, enablement_set) ==
    LET recipes_for_output == get_recipes_for(output, enablement_set)
        amounts == DOMAIN recipes_for_output
    IN IF amounts = {}
       THEN [kind |-> "TypeError"]
       ELSE LET max_amount == Max(amounts)
                recipes == recipes_for_output[max_amount]
            IN [kind |-> "ok", amount |-> max_amount,
                recipe_name |-> recipes[Len(recipes)][1], recipe |-> recipes[Len(recipes)][2]]

\* get_recipe_for: with no amount, Math.max() is -Infinity, recipes is undefined
\* and reading recipes[0] throws a TypeError; of an empty list recipes[0] is
\* undefined and reading recipes[0][0] throws one
get_recipe_for(output, enablement_set) ==
    LET recipes_for_output == get_recipes_for(output, enablement_set)
        amounts == DOMAIN recipes_for_output
    IN IF amounts = {}
       THEN [kind |-> "TypeError"]
       ELSE LET max_amount == Max(amounts)
                recipes == recipes_for_output[max_amount]
            IN IF recipes = <<>>
               THEN [kind |-> "TypeError"]
               ELSE [kind |-> "ok", amount |-> max_amount,
                     recipe_name |-> recipes[1][1], recipe |-> recipes[1][2]]

\* get_recipes_using: the enabled recipes of _ALL_RECIPES with the input, in order
RECURSIVE RecipesUsing(_, _, _)
RecipesUsing(all_recipes, input, enablement_set) ==
    IF all_recipes = <<>> THEN <<>>
    ELSE (IF /\ is_recipe_enabled(Head(all_recipes).key, enablement_set)
             /\ ObjHas(Head(all_recipes).val.inputs, input)
          THEN << <<Head(all_recipes).key, Head(all_recipes).val>> >>
          ELSE <<>>) \o RecipesUsing(Tail(all_recipes), input, enablement_set)

\* get_recipes_using that passes no enablement set on
get_recipes_using_unfiltered(input, enablement_set) == RecipesUsing(ALL_RECIPES, input, AllEnabled)

get_recipes_using(input, enablement_set) == RecipesUsing(ALL_RECIPES, input, enablement_set)

\* find_recipe_name that looks the recipe up by its machine and contents
find_recipe_name_by_contents(recipe) ==
    LET same(r) == r.machine = recipe.machine /\ r.outputs = recipe.outputs
    IN IF \E i \in 1..Len(ALL_RECIPES) : same(ALL_RECIPES[i].val)
       THEN [kind |-> "ok",
             value |-> ALL_RECIPES[CHOOSE i \in 1..Len(ALL_RECIPES) : same(ALL_RECIPES[i].val)].key]
       ELSE [kind |-> "undefined"]

\* find_recipe_name: _RECIPE_NAMES.get(recipe), a Map keyed by the identity of the
\* object; undefined for an object that is no key
find_recipe_name(recipe) ==
    IF recipe.id \in DOMAIN RECIPE_NAMES
    THEN [kind |-> "ok", value |-> RECIPE_NAMES[recipe.id]]
    ELSE [kind |-> "undefined"]

\* get_all_parts: a copy of _ALL_PARTS
get_all_parts == Range(ALL_PARTS)

\* get_base_parts: a copy of _BASE_PARTS
get_base_parts == BASE_PARTS

\* get_terminal_parts: a copy of _TERMINAL_PARTS
get_terminal_parts == TERMINAL_PARTS

\* get_foraged_parts that forgets the difference
get_foraged_parts_all_base == BASE_PARTS

\* get_foraged_parts
get_foraged_parts == BASE_PARTS \ EXTRACTED_PARTS

\* hasNonForageRecipe that asks for one available input where the code asks for
\* every input
hasNonForageRecipe_some_input(part, availableWithoutForaging) ==
    LET recipesFor == get_recipes_for(part, AllEnabled)
    IN \E a \in DOMAIN recipesFor : \E i \in 1..Len(recipesFor[a]) :
          \E input \in Range(ObjKeys(recipesFor[a][i][2].inputs)) :
              input \in availableWithoutForaging

\* allInputsAvailable for some recipe of get_recipes_for(part)
hasNonForageRecipe(part, availableWithoutForaging) ==
    LET recipesFor == get_recipes_for(part, AllEnabled)
    IN \E a \in DOMAIN recipesFor : \E i \in 1..Len(recipesFor[a]) :
          \A input \in Range(ObjKeys(recipesFor[a][i][2].inputs)) :
              input \in availableWithoutForaging

\* one pass of the for loop over _ALL_PARTS, from the i-th part on
RECURSIVE ForagePass(_, _, _)
ForagePass(available, foragedParts, i) ==
    IF i > Len(ALL_PARTS) THEN available
    ELSE LET part == ALL_PARTS[i] IN
         IF part \in available \/ part \in foragedParts
         THEN ForagePass(available, foragedParts, i + 1)
         ELSE IF hasNonForageRecipe(part, available)
              THEN ForagePass(available \cup {part}, foragedParts, i + 1)
              ELSE ForagePass(available, foragedParts, i + 1)

\* the loop left after its first pass
ForageLoop_one_pass(available, foragedParts, passes) ==
    [available |-> ForagePass(available, foragedParts, 1), passes |-> passes + 1]

\* the loop with one more pass after the pass that added nothing
RECURSIVE ForageLoop_extra_pass(_, _, _)
ForageLoop_extra_pass(available, foragedParts, passes) ==
    LET next == ForagePass(available, foragedParts, 1)
    IN IF next # available
       THEN ForageLoop_extra_pass(next, foragedParts, passes + 1)
       ELSE [available |-> available, passes |-> passes + 2]

\* the while (changed) loop: the final set and the number of passes made
RECURSIVE ForageLoop(_, _, _)
ForageLoop(available, foragedParts, passes) ==
    LET next == ForagePass(available, foragedParts, 1)
    IN IF next # available
       THEN ForageLoop(next, foragedParts, passes + 1)
       ELSE [available |-> available, passes |-> passes + 1]

\* get_forage_dependent_parts that keeps the foraged parts in its result
get_forage_dependent_parts_keeps_foraged ==
    LET availableWithoutForaging == ForageLoop(EXTRACTED_PARTS, get_foraged_parts, 0).available
    IN {part \in Range(ALL_PARTS) : ~(part \in availableWithoutForaging)}

\* get_forage_dependent_parts
get_forage_dependent_parts ==
    LET foragedParts == get_foraged_parts
        availableWithoutForaging == ForageLoop(EXTRACTED_PARTS, foragedParts, 0).available
    IN {part \in Range(ALL_PARTS) :
           ~(part \in availableWithoutForaging) /\ ~(part \in foragedParts)}

\* get_project_assembly_parts of an empty whitelist
get_project_assembly_parts_none == {}

\* get_project_assembly_parts
get_project_assembly_parts == PROJECT_ASSEMBLY_PARTS

\* get_ammo_parts that takes no rebar for ammo
get_ammo_parts_no_rebar ==
    {part \in Range(ALL_PARTS) :
        includes(part, <<"Ammo">>) \/ includes(part, <<"Nobelisk">>)}

\* get_ammo_parts
get_ammo_parts ==
    {part \in Range(ALL_PARTS) :
        /\ ~includes(part, <<"Rebar", "Gun">>)
        /\ \/ includes(part, <<"Ammo">>)
           \/ includes(part, <<"Nobelisk">>)
           \/ includes(part, <<"Rebar">>)}

\* get_ingots
get_ingots == {part \in Range(ALL_PARTS) : includes(part, <<"Ingot">>)}

\* get_packaged_fluids
get_packaged_fluids == {part \in Range(ALL_PARTS) : includes(part, <<"Packaged">>)}

\* get_fluids of an empty fluid table
get_fluids_none == {}

\* get_fluids
get_fluids == FLUIDS_DATA

\* outputParts that holds the names of the recipes using the part
outputParts_counts_recipes(part) ==
    LET recipesUsing == get_recipes_using(part, AllEnabled)
    IN {recipesUsing[i][1] : i \in 1..Len(recipesUsing)}

\* the output parts of the recipes using the part: outputParts of both classifiers
outputParts(part) ==
    LET recipesUsing == get_recipes_using(part, AllEnabled)
    IN UNION {Range(ObjKeys(recipesUsing[i][2].outputs)) : i \in 1..Len(recipesUsing)}

\* the body of the for loop of get_strategic_solids: whether the part is added
StrategicSolid(part, include_rebar, forageDependentParts) ==
    LET fluids == get_fluids \cup get_packaged_fluids
        allowedFluids == {PackagedFuel, <<"Packaged", "Ionized", "Fuel">>}
    IN IF part \in BASE_PARTS THEN FALSE
       ELSE IF part = MWm THEN FALSE
       ELSE IF part \in EXTRACTED_PARTS THEN FALSE
       ELSE IF part \in get_foraged_parts \/ part \in forageDependentParts THEN FALSE
       ELSE IF part \in fluids /\ ~(part \in allowedFluids) THEN FALSE
       ELSE IF part \in get_ingots THEN FALSE
       ELSE IF ~include_rebar /\ includes(part, <<"Rebar">>) THEN FALSE
       ELSE IF part \in get_project_assembly_parts THEN TRUE
       ELSE IF part \in get_ammo_parts THEN TRUE
       ELSE Cardinality(outputParts(part)) > 1

\* get_strategic_solids that takes no part for forage-dependent
get_strategic_solids_skips_forage(include_rebar) ==
    {part \in Range(ALL_PARTS) : StrategicSolid(part, include_rebar, {})}

\* get_strategic_solids
get_strategic_solids(include_rebar) ==
    LET forageDependentParts == get_forage_dependent_parts
    IN {part \in Range(ALL_PARTS) : StrategicSolid(part, include_rebar, forageDependentParts)}

\* the checks of get_portable_intermediates that come before the ingot check
PortableSkippedEarly(part, forageDependentParts) ==
    \/ part \in BASE_PARTS
    \/ part = MWm
    \/ part \in EXTRACTED_PARTS
    \/ part \in get_foraged_parts \/ part \in forageDependentParts
    \/ part \in get_fluids \cup get_packaged_fluids

\* the for loop of get_portable_intermediates from the i-th part on.  The
\* function declares no ingots, so the ingot check of the first part to reach
\* it throws a ReferenceError (an ES module is strict code).
RECURSIVE PortableLoop(_, _, _)
PortableLoop(results, forageDependentParts, i) ==
    IF i > Len(ALL_PARTS) THEN [kind |-> "ok", value |-> results]
    ELSE IF PortableSkippedEarly(ALL_PARTS[i], forageDependentParts)
         THEN PortableLoop(results, forageDependentParts, i + 1)
         ELSE [kind |-> "ReferenceError"]

\* get_portable_intermediates
get_portable_intermediates == PortableLoop({}, get_forage_dependent_parts, 1)

\* get_single_use_intermediates: the differences in the order of the code; the
\* call of get_portable_intermediates may throw, and the throw goes to the caller
get_single_use_intermediates ==
    LET all == get_all_parts
        minusBase == all \ get_base_parts
        minusStrategic == minusBase \ get_strategic_solids(FALSE)
        portable == get_portable_intermediates
    IN IF portable.kind # "ok" THEN [kind |-> portable.kind]
       ELSE [kind |-> "ok",
             value |-> ((minusStrategic \ portable.value) \ get_ammo_parts) \ {MWm}]

\* the canonical name of a material, or the material itself if the lookup has none
Canonical(material) ==
    IF toLowerCase(material) \in DOMAIN MATERIAL_NAME_LOOKUP
    THEN MATERIAL_NAME_LOOKUP[toLowerCase(material)]
    ELSE material

\* normalize_material_names: the loop over Object.entries(materials)
RECURSIVE NormalizeEntries(_, _)
NormalizeEntries(normalized, entries) ==
    IF entries = <<>> THEN normalized
    ELSE NormalizeEntries(ObjSet(normalized, Canonical(Head(entries).key), Head(entries).val),
                          Tail(entries))

normalize_material_names(materials) == NormalizeEntries(<<>>, materials)

\* normalize_input_array: one [name, rate] pushed for each [material, rate]
normalize_input_array(inputs) ==
    [i \in 1..Len(inputs) |-> <<Canonical(inputs[i][1]), inputs[i][2]>>]

(***************************************************************************)
(* The snapshots.  RECIPES_DATA.recipes is any list of at most MaxRecipes  *)
(* different rows of a pool; RECIPES_DATA.miners is fixed.                 *)
(***************************************************************************)
\* one {item, amount} entry
Item(item, amount) == [item |-> item, amount |-> amount]

\* a machine recipe: a row with inMachine set
Row(name, producedIn, time, ingredients, products) ==
    [className |-> name, name |-> name, ingredients |-> ingredients, products |-> products,
     time |-> time, producedIn |-> producedIn, inMachine |-> TRUE, forBuilding |-> FALSE]

MINERS ==
    << [allowedResources |-> <<IronOre, CopperOre, Coal>>],
       [allowedResources |-> <<Water>>],
       [allowedResources |-> <<CrudeOil>>] >>

\* RECIPES_DATA.schematics: unlock.recipes holds class names of recipes, the
\* rows of the snapshot among them and others
SCHEMATICS ==
    << [name |-> "Coal Power", tier |-> 3, alternate |-> FALSE,
        recipes |-> <<"Iron Alloy Ingot", "Fuel", "Steel Ingot">>],
       [name |-> "HUB Upgrade 2", tier |-> 0, alternate |-> FALSE,
        recipes |-> <<"Copper Ingot", "Smelter", "Iron Plate", "Biomass (Leaves)">>],
       [name |-> "Basic Steel Production", tier |-> 3, alternate |-> FALSE,
        recipes |-> <<"Smart Plating", "Solid Biofuel">>],
       [name |-> "Pure Iron Ingot", tier |-> 1, alternate |-> TRUE,
        recipes |-> <<"Pure Iron Ingot">>] >>

\* a snapshot of the recipes
Snapshot(recipes) == [recipes |-> recipes, miners |-> MINERS, schematics |-> SCHEMATICS]

\* the lists of at most MaxRecipes different rows of the pool
Snapshots(pool) ==
    UNION {{s \in [1..n -> pool] : \A i, j \in 1..n : i # j => s[i] # s[j]} :
           n \in 0..MaxRecipes}

\* rows about gathering: biomass from leaves or from water, the biofuels made of
\* it, an ingot from ore, and two packaging recipes that feed each other
ForagePool ==
    { Row("Biomass (Leaves)", <<"Constructor">>, 5, <<Item(Leaves, 10)>>, <<Item(Biomass, 5)>>),
      Row("Biomass (Algae)", <<"Refinery">>, 4, <<Item(Water, 2)>>, <<Item(Biomass, 1)>>),
      Row("Solid Biofuel", <<"Constructor">>, 4, <<Item(Biomass, 8)>>, <<Item(SolidBiofuel, 4)>>),
      Row("Liquid Biofuel", <<"Refinery">>, 4, <<Item(SolidBiofuel, 6), Item(Water, 3)>>,
          <<Item(LiquidBiofuel, 4)>>),
      Row("Iron Ingot", <<"Smelter">>, 2, <<Item(IronOre, 1)>>, <<Item(IronIngot, 1)>>),
      Row("Packaged Water", <<"Packager">>, 2, <<Item(Water, 2), Item(EmptyCanister, 2)>>,
          <<Item(PackagedWater, 2)>>),
      Row("Unpackage Water", <<"Packager">>, 1, <<Item(PackagedWater, 2)>>,
          <<Item(Water, 2), Item(EmptyCanister, 2)>>) }

\* rows about lookup by output: iron ingots at 30 a minute in two machines and at
\* 65 in two more, a copper ingot, and a build-gun row that is no machine recipe
LookupPool ==
    { Row("Iron Ingot", <<"Smelter">>, 2, <<Item(IronOre, 1)>>, <<Item(IronIngot, 1)>>),
      Row("Pure Iron Ingot", <<"Refinery", "Blender">>, 12, <<Item(IronOre, 7), Item(Water, 4)>>,
          <<Item(IronIngot, 13)>>),
      Row("Iron Alloy Ingot", <<"Foundry">>, 4, <<Item(IronOre, 2), Item(CopperOre, 2)>>,
          <<Item(IronIngot, 2)>>),
      Row("Copper Ingot", <<"Smelter">>, 2, <<Item(CopperOre, 1)>>, <<Item(CopperIngot, 1)>>),
      Row("Copper Alloy Ingot", <<"Foundry">>, 6, <<Item(CopperOre, 5), Item(IronOre, 5)>>,
          <<Item(CopperIngot, 10)>>),
      [className |-> "Smelter", name |-> "Smelter", ingredients |-> <<Item(IronRod, 5)>>,
       products |-> <<Item("Smelter", 1)>>, time |-> 1, producedIn |-> <<>>,
       inMachine |-> FALSE, forBuilding |-> TRUE] }

\* rows about stockpiling: a plate and the two project-assembly parts made of it,
\* a fuel with its packaging and unpackaging, and a rebar.  The recipes are
\* shortened to start from extracted parts, so that three rows make a chain.
StrategicPool ==
    { Row("Iron Plate", <<"Constructor">>, 6, <<Item(IronOre, 3)>>, <<Item(IronPlate, 2)>>),
      Row("Smart Plating", <<"Assembler">>, 30, <<Item(IronPlate, 1)>>, <<Item(SmartPlating, 1)>>),
      Row("Versatile Framework", <<"Assembler">>, 24,
          <<Item(SmartPlating, 1), Item(IronPlate, 12)>>, <<Item(VersatileFramework, 2)>>),
      Row("Fuel", <<"Refinery">>, 6, <<Item(CrudeOil, 6)>>, <<Item(Fuel, 4)>>),
      Row("Packaged Fuel", <<"Packager">>, 3, <<Item(Fuel, 2)>>, <<Item(PackagedFuel, 2)>>),
      Row("Unpackage Fuel", <<"Packager">>, 2, <<Item(PackagedFuel, 2)>>,
          <<Item(Fuel, 2), Item(EmptyCanister, 2)>>),
      Row("Iron Rebar", <<"Constructor">>, 4, <<Item(IronOre, 1)>>, <<Item(IronRebar, 1)>>) }

\* rows that share a display name: an iron ingot of the smelter, one of the
\* foundry and a second one of the smelter, each under its own class name, next
\* to a copper ingot whose name is its own
DuplicatePool ==
    { Row("Iron Ingot", <<"Smelter">>, 2, <<Item(IronOre, 1)>>, <<Item(IronIngot, 1)>>),
      [Row("Iron Ingot", <<"Foundry">>, 4, <<Item(IronOre, 2), Item(CopperOre, 2)>>,
           <<Item(IronIngot, 2)>>) EXCEPT !.className = "Iron Alloy Ingot"],
      [Row("Iron Ingot", <<"Smelter">>, 12, <<Item(IronOre, 7), Item(Water, 4)>>,
           <<Item(IronIngot, 13)>>) EXCEPT !.className = "Pure Iron Ingot"],
      Row("Copper Ingot", <<"Smelter">>, 2, <<Item(CopperOre, 1)>>, <<Item(CopperIngot, 1)>>) }

\* rows about the catalogue: a plate, a part whose name is the plate's in lower
\* case, made in a machine without a load, a rod, a copper ingot, and two rows
\* flagged inMachine that name no machine, one of them unlocked by a schematic
CatalogPool ==
    { Row("Iron Plate", <<"Constructor">>, 6, <<Item(IronOre, 3)>>, <<Item(IronPlate, 2)>>),
      Row("Salvaged Iron Plate", <<"Blender">>, 6, <<Item(IronRod, 1)>>,
          <<Item(<<"iron", "plate">>, 1)>>),
      Row("Iron Rod", <<"Constructor">>, 4, <<Item(IronIngot, 1)>>, <<Item(IronRod, 1)>>),
      Row("Copper Ingot", <<"Smelter">>, 2, <<Item(CopperOre, 1)>>, <<Item(CopperIngot, 1)>>),
      Row("Steel Ingot", <<>>, 4, <<Item(IronOre, 3), Item(Coal, 3)>>,
          <<Item(<<"Steel", "Ingot">>, 3)>>),
      Row("Portable Miner", <<>>, 10, <<Item(IronPlate, 2), Item(IronRod, 4)>>,
          <<Item(<<"Portable", "Miner">>, 1)>>) }

\* three rows of one machine each, for a caller that writes into what it was handed
MutationPool ==
    { Row("Iron Plate", <<"Constructor">>, 6, <<Item(IronOre, 3)>>, <<Item(IronPlate, 2)>>),
      Row("Iron Rod", <<"Constructor">>, 4, <<Item(IronIngot, 1)>>, <<Item(IronRod, 1)>>),
      Row("Copper Ingot", <<"Smelter">>, 2, <<Item(CopperOre, 1)>>, <<Item(CopperIngot, 1)>>) }

InitTables ==
    /\ TRANSFORMED_RECIPES_DATA = <<>>
    /\ BY_OUTPUT = EmptyMap
    /\ BY_MACHINE = <<>>
    /\ ALL_PARTS = <<>>
    /\ ALL_RECIPES = <<>>
    /\ RECIPE_NAMES = EmptyMap
    /\ BASE_PARTS = {}
    /\ TERMINAL_PARTS = {}
    /\ DEFAULT_ENABLEMENT_SET = {}
    /\ EXTRACTED_PARTS = {}
    /\ MATERIAL_NAME_LOOKUP = "null"
    /\ SCHEMATIC_RECIPES_LOOKUP = EmptyMap
    /\ UNLISTED_RECIPES = {}
    /\ pc = "load"
    /\ ret = NoCall

InitForage ==
    /\ RECIPES_DATA \in {Snapshot(s) : s \in Snapshots(ForagePool)}
    /\ InitTables

InitLookup ==
    /\ RECIPES_DATA \in {Snapshot(s) : s \in Snapshots(LookupPool)}
    /\ InitTables

InitStrategic ==
    /\ RECIPES_DATA \in {Snapshot(s) : s \in Snapshots(StrategicPool)}
    /\ InitTables

InitDuplicate ==
    /\ RECIPES_DATA \in {Snapshot(s) : s \in Snapshots(DuplicatePool)}
    /\ InitTables

InitCatalog ==
    /\ RECIPES_DATA \in {Snapshot(s) : s \in Snapshots(CatalogPool)}
    /\ InitTables

InitMutation ==
    /\ RECIPES_DATA \in {Snapshot(s) : s \in Snapshots(MutationPool)}
    /\ InitTables

(***************************************************************************)
(* The calls of a client of the module, each on the loaded tables.         *)
(***************************************************************************)
\* the recipe names a caller may put in an enablement set
RecipeNames == Range(ObjKeys(ALL_RECIPES))

\* the enablement sets a caller passes: none, the empty Set, the Set of one
\* recipe, the Set of the recipes of one machine, and the Set that
\* get_default_enablement_set() hands out
EnablementSets ==
    {AllEnabled} \cup
    {[null |-> FALSE, names |-> S] :
        S \in {{}} \cup {{name} : name \in RecipeNames}
              \cup {Range(ObjKeys(m.val)) : m \in Range(BY_MACHINE)}
              \cup {DEFAULT_ENABLEMENT_SET}}

\* the part names a caller may ask about: those of the tables and one unknown
PartNames == Range(ALL_PARTS) \cup {Motor}

Call(r) ==
    /\ pc = "ready"
    /\ ret' = r
    /\ pc' = "returned"
    /\ UNCHANGED <<RECIPES_DATA, tables>>

GetRecipeFor ==
    /\ pc = "ready"
    /\ \E output \in PartNames, enablement_set \in EnablementSets :
           Call([op |-> "get_recipe_for", output |-> output, enablement_set |-> enablement_set,
                 result |-> get_recipe_for(output, enablement_set)])

GetForagedParts ==
    Call([op |-> "get_foraged_parts", result |-> get_foraged_parts])

\* get_forage_dependent_parts that keeps what it found available in _EXTRACTED_PARTS
GetForageDependentParts_keeps_available ==
    /\ pc = "ready"
    /\ ret' = [op |-> "get_forage_dependent_parts", result |-> get_forage_dependent_parts]
    /\ pc' = "returned"
    /\ EXTRACTED_PARTS' = ForageLoop(EXTRACTED_PARTS, get_foraged_parts, 0).available
    /\ UNCHANGED <<RECIPES_DATA, TRANSFORMED_RECIPES_DATA, BY_OUTPUT, BY_MACHINE, ALL_PARTS,
                   ALL_RECIPES, RECIPE_NAMES, BASE_PARTS, TERMINAL_PARTS, DEFAULT_ENABLEMENT_SET,
                   MATERIAL_NAME_LOOKUP, SCHEMATIC_RECIPES_LOOKUP, UNLISTED_RECIPES>>

GetForageDependentParts ==
    Call([op |-> "get_forage_dependent_parts", result |-> get_forage_dependent_parts])

GetStrategicSolids ==
    /\ pc = "ready"
    /\ \E include_rebar \in BOOLEAN :
           Call([op |-> "get_strategic_solids", include_rebar |-> include_rebar,
                 result |-> get_strategic_solids(include_rebar)])

GetPortableIntermediates ==
    Call([op |-> "get_portable_intermediates", result |-> get_portable_intermediates])

GetSingleUseIntermediates ==
    Call([op |-> "get_single_use_intermediates", result |-> get_single_use_intermediates])

GetBaseParts ==
    Call([op |-> "get_base_parts", result |-> get_base_parts])

GetTerminalParts ==
    Call([op |-> "get_terminal_parts", result |-> get_terminal_parts])

GetRecipesFor ==
    /\ pc = "ready"
    /\ \E output \in PartNames, enablement_set \in EnablementSets :
           Call([op |-> "get_recipes_for", output |-> output, enablement_set |-> enablement_set,
                 result |-> get_recipes_for(output, enablement_set)])

GetRecipesUsing ==
    /\ pc = "ready"
    /\ \E input \in PartNames, enablement_set \in EnablementSets :
           Call([op |-> "get_recipes_using", input |-> input, enablement_set |-> enablement_set,
                 result |-> get_recipes_using(input, enablement_set)])

GetConveyorRate ==
    /\ pc = "ready"
    /\ \E speed \in 0..Len(CONVEYORS) :
           Call([op |-> "get_conveyor_rate", speed |-> speed, result |-> get_conveyor_rate(speed)])

GetLoad ==
    /\ pc = "ready"
    /\ \E machine \in DOMAIN LOADS_DATA \cup {"Blender"} :
           Call([op |-> "get_load", machine |-> machine, result |-> get_load(machine)])

GetAllRecipesByMachine ==
    Call([op |-> "get_all_recipes_by_machine", result |-> get_all_recipes_by_machine])

GetAllRecipes ==
    Call([op |-> "get_all_recipes", result |-> get_all_recipes])

\* the Recipe objects a caller may hold: those of the tables, and for each recipe
\* of the transformed data a new one as get_recipes_for makes it
HeldRecipes ==
    {ALL_RECIPES[i].val : i \in 1..Len(ALL_RECIPES)}
    \cup UNION {{m.val[j].val : j \in 1..Len(m.val)} : m \in Range(BY_MACHINE)}
    \cup UNION {{create_recipe_from_raw(m.key, m.val[j].key) : j \in 1..Len(m.val)} :
                m \in Range(TRANSFORMED_RECIPES_DATA)}

FindRecipeName ==
    /\ pc = "ready"
    /\ \E recipe \in HeldRecipes :
           Call([op |-> "find_recipe_name", recipe |-> recipe, result |-> find_recipe_name(recipe)])

\* the names a caller may ask to have normalized: the parts, their lower-case
\* spellings, an upper-case spelling and an unknown name
RawNames ==
    Range(ALL_PARTS) \cup {toLowerCase(part) : part \in Range(ALL_PARTS)}
    \cup {<<"IRON", "PLATE">>, Motor}

NormalizeMaterialNames ==
    /\ pc = "ready"
    /\ \E materials \in {Obj1(material, 1) : material \in RawNames}
                         \cup {ObjSet(Obj1(part, 1), toLowerCase(part), 2) : part \in Range(ALL_PARTS)} :
           Call([op |-> "normalize_material_names", materials |-> materials,
                 result |-> normalize_material_names(materials)])

NormalizeInputArray ==
    /\ pc = "ready"
    /\ \E material \in RawNames :
           Call([op |-> "normalize_input_array", inputs |-> << <<material, 1>> >>,
                 result |-> normalize_input_array(<< <<material, 1>> >>)])

\* the Recipe with the part written into its inputs
Written(recipe, part) == [recipe EXCEPT !.inputs = ObjSet(@, part, 1)]

\* A caller that was handed Recipe objects by get_recipes_using writes a new key
\* into the inputs of one of them: recipe.inputs[part] = 1.  The object is the one
\* that _ALL_RECIPES and _BY_MACHINE hold, so they show the key too.  The caller
\* writes once more only into an object without the key.
MutateReturnedRecipe ==
    /\ pc = "returned"
    /\ ret.op = "get_recipes_using"
    /\ \E i \in 1..Len(ret.result) :
          LET recipe == ret.result[i][2]
              Write(r) == IF r.id = recipe.id THEN Written(r, Motor) ELSE r
          IN /\ \A r \in HeldRecipes : ~ObjHas(r.inputs, Motor)
             /\ ALL_RECIPES' = [k \in 1..Len(ALL_RECIPES) |->
                                   [key |-> ALL_RECIPES[k].key, val |-> Write(ALL_RECIPES[k].val)]]
             /\ BY_MACHINE' = [m \in 1..Len(BY_MACHINE) |->
                                  [key |-> BY_MACHINE[m].key,
                                   val |-> [j \in 1..Len(BY_MACHINE[m].val) |->
                                               [key |-> BY_MACHINE[m].val[j].key,
                                                val |-> Write(BY_MACHINE[m].val[j].val)]]]]
             /\ ret' = [ret EXCEPT !.result =
                                      [k \in 1..Len(ret.result) |->
                                          <<ret.result[k][1], Write(ret.result[k][2])>>]]
    /\ UNCHANGED <<RECIPES_DATA, TRANSFORMED_RECIPES_DATA, BY_OUTPUT, ALL_PARTS, RECIPE_NAMES,
                   BASE_PARTS, TERMINAL_PARTS, DEFAULT_ENABLEMENT_SET, EXTRACTED_PARTS,
                   MATERIAL_NAME_LOOKUP, SCHEMATIC_RECIPES_LOOKUP, UNLISTED_RECIPES, pc>>

\* the caller takes the result and is ready for its next call
Return ==
    /\ pc = "returned"
    /\ pc' = "ready"
    /\ ret' = NoCall
    /\ UNCHANGED <<RECIPES_DATA, tables>>

Next ==
    \/ populate_lookups
    \/ GetRecipeFor
    \/ GetForagedParts
    \/ GetForageDependentParts
    \/ GetStrategicSolids
    \/ GetPortableIntermediates
    \/ GetSingleUseIntermediates
    \/ GetBaseParts
    \/ GetTerminalParts
    \/ GetRecipesFor
    \/ GetRecipesUsing
    \/ GetConveyorRate
    \/ GetLoad
    \/ GetAllRecipesByMachine
    \/ GetAllRecipes
    \/ FindRecipeName
    \/ NormalizeMaterialNames
    \/ NormalizeInputArray
    \/ Return

SpecForage == InitForage /\ [][Next]_vars

SpecStrategic == InitStrategic /\ [][Next]_vars

SpecLookup == InitLookup /\ [][Next]_vars

SpecDuplicate == InitDuplicate /\ [][Next]_vars

SpecCatalog == InitCatalog /\ [][Next]_vars

\* the module with a caller that also writes into the Recipe objects it was handed
NextMutating == Next \/ MutateReturnedRecipe

SpecMutation == InitMutation /\ [][NextMutating]_vars

(***************************************************************************)
(* What the snapshot says, read off RECIPES_DATA and POWER_RECIPES_DATA    *)
(* and not off the tables: the yardstick of the properties below.          *)
(***************************************************************************)
\* the recipes of the snapshot, each as its sets of input and of output parts:
\* the machine rows that name a machine, and the power recipes
SnapshotRecipes ==
    {[ins  |-> {r.ingredients[k].item : k \in 1..Len(r.ingredients)},
      outs |-> {r.products[k].item : k \in 1..Len(r.products)}] :
        r \in {x \in Range(RECIPES_DATA.recipes) : x.inMachine /\ x.producedIn # <<>>}}
    \cup
    UNION {{[ins  |-> Range(ObjKeys(m.val[j].val.in)),
             outs |-> Range(ObjKeys(m.val[j].val.out))] : j \in 1..Len(m.val)} :
           m \in Range(POWER_RECIPES_DATA)}

\* every part a recipe of the snapshot consumes or produces
SnapshotParts == UNION {r.ins \cup r.outs : r \in SnapshotRecipes}

\* the parts some recipe of the snapshot produces
SnapshotProduced == UNION {r.outs : r \in SnapshotRecipes}

\* the extraction whitelist of the snapshot
SnapshotExtracted ==
    UNION {Range(RECIPES_DATA.miners[i].allowedResources) : i \in 1..Len(RECIPES_DATA.miners)}

\* BaseParts of the spec: never produced, or on the extraction whitelist
SnapshotBase == {p \in SnapshotParts : p \notin SnapshotProduced \/ p \in SnapshotExtracted}

SnapshotForaged == SnapshotBase \ SnapshotExtracted

\* S holds the extracted parts and is closed under the rule of Available
ClosedAvailable(S) ==
    /\ SnapshotExtracted \subseteq S
    /\ \A p \in SnapshotParts \ SnapshotForaged :
          (\E r \in SnapshotRecipes : p \in r.outs /\ r.ins \subseteq S) => p \in S

\* the least such set: what every closed set holds.  The rule puts only
\* produced parts in a set, so the closed sets of extracted and produced parts
\* have the least one among them.
LeastAvailable ==
    LET closed == {S \in {SnapshotExtracted \cup T : T \in SUBSET (SnapshotProduced \ SnapshotExtracted)} :
                      ClosedAvailable(S)}
    IN {p \in SnapshotParts \cup SnapshotExtracted : \A S \in closed : p \in S}

(***************************************************************************)
(* C1. get_forage_dependent_parts() returns exactly AllParts minus         *)
(* ForagedParts minus Available, Available being the least set that holds  *)
(* ExtractedParts and takes every unforaged part of AllParts one of whose   *)
(* producing recipes has all its inputs in Available.                      *)
(***************************************************************************)
C1_ForageDependentIsComplementOfLeastAvailable ==
    ret.op = "get_forage_dependent_parts" =>
        ret.result = (SnapshotParts \ SnapshotForaged) \ LeastAvailable

\* a call whose loop made three passes: a part became available only after a
\* part that comes later in _ALL_PARTS
C1_Witness ==
    /\ ret.op = "get_forage_dependent_parts"
    /\ LiquidBiofuel \in LeastAvailable \ SnapshotExtracted
    /\ ForageLoop(EXTRACTED_PARTS, get_foraged_parts, 0).passes >= 3

(***************************************************************************)
(* C2. The set get_forage_dependent_parts() returns shares no element with *)
(* get_extracted_parts() and none with get_foraged_parts().                *)
(***************************************************************************)
C2_ForageDependentDisjoint ==
    ret.op = "get_forage_dependent_parts" =>
        /\ ret.result \cap EXTRACTED_PARTS = {}
        /\ ret.result \cap get_foraged_parts = {}

\* a non-empty result beside foraged parts and extracted parts of the tables
C2_Witness ==
    /\ ret.op = "get_forage_dependent_parts"
    /\ ret.result # {}
    /\ get_foraged_parts # {}
    /\ EXTRACTED_PARTS \cap Range(ALL_PARTS) # {}

(***************************************************************************)
(* C3. get_foraged_parts() is exactly BaseParts minus ExtractedParts, and  *)
(* no part that some recipe produces is in it.                             *)
(***************************************************************************)
C3_ForagedIsBaseMinusExtracted ==
    ret.op = "get_foraged_parts" =>
        /\ ret.result = SnapshotBase \ SnapshotExtracted
        /\ ret.result \cap SnapshotProduced = {}

\* a call on tables with a foraged part, a by-product that is produced only, and
\* an extracted part that a recipe produces as well
C3_Witness ==
    /\ ret.op = "get_foraged_parts"
    /\ Leaves \in ret.result
    /\ EmptyCanister \in SnapshotProduced \ ret.result
    /\ Water \in (SnapshotProduced \cap SnapshotExtracted) \ ret.result

(***************************************************************************)
(* The recipes of the snapshot by machine: one entry for each machine of   *)
(* each machine row, then the power recipes.  row is the entry's place in  *)
(* the snapshot: the place of its row in RECIPES_DATA.recipes, the power   *)
(* recipes following in the order of POWER_RECIPES_DATA.                   *)
(***************************************************************************)
SnapshotEntries ==
    UNION {{[machine |-> RECIPES_DATA.recipes[i].producedIn[k],
             name |-> RECIPES_DATA.recipes[i].name,
             row |-> i, place |-> k,
             rates |-> [x \in 1..Len(RECIPES_DATA.recipes[i].products) |->
                           [part |-> RECIPES_DATA.recipes[i].products[x].item,
                            rate |-> (RECIPES_DATA.recipes[i].products[x].amount * 60)
                                        \div RECIPES_DATA.recipes[i].time]]] :
               k \in 1..Len(RECIPES_DATA.recipes[i].producedIn)} :
           i \in {j \in 1..Len(RECIPES_DATA.recipes) : RECIPES_DATA.recipes[j].inMachine}}
    \cup
    UNION {{[machine |-> POWER_RECIPES_DATA[a].key,
             name |-> POWER_RECIPES_DATA[a].val[j].key,
             row |-> Len(RECIPES_DATA.recipes) + a, place |-> j,
             rates |-> [x \in 1..Len(POWER_RECIPES_DATA[a].val[j].val.out) |->
                           [part |-> POWER_RECIPES_DATA[a].val[j].val.out[x].key,
                            rate |-> POWER_RECIPES_DATA[a].val[j].val.out[x].val]]] :
               j \in 1..Len(POWER_RECIPES_DATA[a].val)} :
           a \in 1..Len(POWER_RECIPES_DATA)}

\* the entry produces the output at the rate
ProducesAt(e, output, rate) ==
    \E x \in 1..Len(e.rates) : e.rates[x].part = output /\ e.rates[x].rate = rate

\* the enabled entries that produce the output
EnabledProducers(output, enablement_set) ==
    {e \in SnapshotEntries :
        /\ enablement_set.null \/ e.name \in enablement_set.names
        /\ \E x \in 1..Len(e.rates) : e.rates[x].part = output}

\* the rates at which they produce it
EnabledRates(output, enablement_set) ==
    UNION {{e.rates[x].rate : x \in {y \in 1..Len(e.rates) : e.rates[y].part = output}} :
           e \in EnabledProducers(output, enablement_set)}

\* the enabled entries that produce the output at the greatest rate
BestProducers(output, enablement_set) ==
    LET rates == EnabledRates(output, enablement_set)
        best == CHOOSE m \in rates : \A r \in rates : r <= m
    IN {e \in EnabledProducers(output, enablement_set) : ProducesAt(e, output, best)}

(***************************************************************************)
(* C4. For an output with an enabled producing recipe, get_recipe_for      *)
(* returns the greatest rate any enabled recipe declares for the output,   *)
(* and with it a recipe that is enabled and produces the output at that    *)
(* rate.                                                                   *)
(***************************************************************************)
C4_RecipeForHasMaximalRate ==
    (ret.op = "get_recipe_for" /\ EnabledProducers(ret.output, ret.enablement_set) # {}) =>
        /\ ret.result.kind = "ok"
        /\ \A r \in EnabledRates(ret.output, ret.enablement_set) : r <= ret.result.amount
        /\ \E e \in EnabledProducers(ret.output, ret.enablement_set) :
              /\ e.name = ret.result.recipe_name
              /\ e.machine = ret.result.recipe.machine
              /\ ProducesAt(e, ret.output, ret.result.amount)
        /\ ObjHas(ret.result.recipe.outputs, ret.output)
        /\ ObjGet(ret.result.recipe.outputs, ret.output) = ret.result.amount

\* Scenario B: recipes at 30 and at 65 a minute, all enabled, and the one at 65 returned
C4_Witness ==
    /\ ret.op = "get_recipe_for"
    /\ ret.output = IronIngot
    /\ ret.enablement_set.null
    /\ EnabledRates(ret.output, ret.enablement_set) = {30, 65}
    /\ ret.result.kind = "ok"
    /\ ret.result.amount = 65
    /\ ret.result.recipe_name = "Pure Iron Ingot"

\* e is no later in the snapshot than f
Earlier(e, f) == e.row < f.row \/ (e.row = f.row /\ e.place <= f.place)

\* the entry with which the machine first appears in the snapshot
MachineFirst(machine) ==
    LET entries == {f \in SnapshotEntries : f.machine = machine}
    IN CHOOSE e \in entries : \A g \in entries : Earlier(e, g)

\* the entry with which the machine first has a recipe of the name
NameFirst(machine, name) ==
    LET entries == {f \in SnapshotEntries : f.machine = machine /\ f.name = name}
    IN CHOOSE e \in entries : \A g \in entries : Earlier(e, g)

\* e is registered no later than f: machines in the order of their first
\* appearance, and within a machine the names in the order of theirs
RegisteredBefore(e, f) ==
    IF e.machine # f.machine
    THEN Earlier(MachineFirst(e.machine), MachineFirst(f.machine))
    ELSE Earlier(NameFirst(e.machine, e.name), NameFirst(f.machine, f.name))

(***************************************************************************)
(* C5 as stated: among the enabled recipes that produce the output at the  *)
(* greatest rate, get_recipe_for returns the one that appears earliest in  *)
(* the snapshot's recipe order.                                            *)
(***************************************************************************)
C5_TieBreakIsSnapshotOrder ==
    (ret.op = "get_recipe_for" /\ EnabledProducers(ret.output, ret.enablement_set) # {}) =>
        \E e \in BestProducers(ret.output, ret.enablement_set) :
            /\ e.name = ret.result.recipe_name
            /\ e.machine = ret.result.recipe.machine
            /\ \A f \in BestProducers(ret.output, ret.enablement_set) : Earlier(e, f)

(***************************************************************************)
(* C5. Among the enabled recipes that produce the output at the greatest   *)
(* rate, get_recipe_for returns the one registered earliest.  Recipes are  *)
(* registered machine by machine: the machines in the order in which the   *)
(* snapshot first names them (the power machines after them), and within   *)
(* a machine the recipes in snapshot order.                                *)
(***************************************************************************)
C5_TieBreakIsRegistrationOrder ==
    (ret.op = "get_recipe_for" /\ EnabledProducers(ret.output, ret.enablement_set) # {}) =>
        \E e \in BestProducers(ret.output, ret.enablement_set) :
            /\ e.name = ret.result.recipe_name
            /\ e.machine = ret.result.recipe.machine
            /\ \A f \in BestProducers(ret.output, ret.enablement_set) : RegisteredBefore(e, f)

\* a tie between recipes of two machines, the one returned coming later in the snapshot
C5_Witness ==
    /\ ret.op = "get_recipe_for"
    /\ ret.result.kind = "ok"
    /\ \E e, f \in BestProducers(ret.output, ret.enablement_set) :
          /\ e.name = ret.result.recipe_name
          /\ e.machine = ret.result.recipe.machine
          /\ f.machine # e.machine
          /\ f.row < e.row

(***************************************************************************)
(* C6 as stated: when no enabled recipe produces the output,               *)
(* get_recipe_for signals NotFound.                                        *)
(***************************************************************************)
C6_NotFoundWhenNoProducer ==
    (ret.op = "get_recipe_for" /\ EnabledProducers(ret.output, ret.enablement_set) = {}) =>
        ret.result.kind = "NotFound"

\* the parts of the snapshot that need a foraged part: C1
SnapshotForageDependent == (SnapshotParts \ SnapshotForaged) \ LeastAvailable

\* a fluid of the spec: listed in the fluid table, or packaged
IsFluid(part) == part \in FLUIDS_DATA \/ includes(part, <<"Packaged">>)

\* the fluid allow-list of the spec
AllowedFluids == {<<"Packaged", "Fuel">>, <<"Packaged", "Ionized", "Fuel">>}

\* an ammo part of the spec
IsAmmo(part) ==
    /\ ~includes(part, <<"Rebar", "Gun">>)
    /\ includes(part, <<"Ammo">>) \/ includes(part, <<"Nobelisk">>) \/ includes(part, <<"Rebar">>)

\* the parts of the snapshot that some exclusion rule of StrategicSolids matches
ExcludedParts(include_rebar) ==
    LET base == SnapshotBase
        foraged == SnapshotForaged
        forageDependent == SnapshotForageDependent
    IN {part \in SnapshotParts :
           \/ part \in base
           \/ part = MWm
           \/ part \in SnapshotExtracted
           \/ part \in foraged
           \/ part \in forageDependent
           \/ IsFluid(part) /\ part \notin AllowedFluids
           \/ includes(part, <<"Ingot">>)
           \/ ~include_rebar /\ includes(part, <<"Rebar">>)}

\* the output parts of the recipes of the snapshot that consume the part
SnapshotFanOut(part) == UNION {r.outs : r \in {x \in SnapshotRecipes : part \in x.ins}}

(***************************************************************************)
(* C7. No part returned by get_strategic_solids() is a base part, MWm, an  *)
(* extracted part, a foraged part, a forage-dependent part, an ingot or a  *)
(* fluid outside the allow-list, whitelisted or ammo though it may be.     *)
(***************************************************************************)
C7_StrategicExclusionsFirst ==
    ret.op = "get_strategic_solids" =>
        LET base == SnapshotBase
            foraged == SnapshotForaged
            forageDependent == SnapshotForageDependent
        IN \A part \in ret.result :
              /\ part \notin base
              /\ part # MWm
              /\ part \notin SnapshotExtracted
              /\ part \notin foraged
              /\ part \notin forageDependent
              /\ ~includes(part, <<"Ingot">>)
              /\ IsFluid(part) => part \in AllowedFluids

\* a whitelisted part made of a foraged one is left out, and an ammo part without
\* a recipe too, of a result that is not empty
C7_Witness ==
    /\ ret.op = "get_strategic_solids"
    /\ ret.result # {}
    /\ \E part \in PROJECT_ASSEMBLY_PARTS \cap SnapshotForageDependent : part \notin ret.result
    /\ \E part \in PROJECT_ASSEMBLY_PARTS \cap SnapshotForaged : part \notin ret.result

(***************************************************************************)
(* C8 as stated: every part of AllParts on the project-assembly whitelist  *)
(* is in get_strategic_solids().                                           *)
(***************************************************************************)
C8_WhitelistAlwaysIncluded ==
    ret.op = "get_strategic_solids" =>
        \A part \in PROJECT_ASSEMBLY_PARTS \cap Range(ALL_PARTS) : part \in ret.result

(***************************************************************************)
(* C8. A part of AllParts on the project-assembly whitelist that no        *)
(* exclusion rule matches is in get_strategic_solids(), whatever its       *)
(* fan-out, 1 and 0 included.                                              *)
(***************************************************************************)
C8_WhitelistIncludedUnlessExcluded ==
    ret.op = "get_strategic_solids" =>
        LET excluded == ExcludedParts(ret.include_rebar)
        IN \A part \in PROJECT_ASSEMBLY_PARTS \cap Range(ALL_PARTS) :
              part \notin excluded => part \in ret.result

\* Scenario C: whitelisted parts of fan-out 1 and of fan-out 0 are returned
C8_Witness ==
    /\ ret.op = "get_strategic_solids"
    /\ \E part \in PROJECT_ASSEMBLY_PARTS \cap ret.result : Cardinality(SnapshotFanOut(part)) = 1
    /\ \E part \in PROJECT_ASSEMBLY_PARTS \cap ret.result : Cardinality(SnapshotFanOut(part)) = 0

(***************************************************************************)
(* C9. A part that no exclusion rule matches and that is neither on the    *)
(* whitelist nor ammo is in get_strategic_solids() exactly when the        *)
(* recipes consuming it have more than one output part between them.       *)
(***************************************************************************)
C9_FanOutRule ==
    ret.op = "get_strategic_solids" =>
        LET excluded == ExcludedParts(ret.include_rebar)
        IN \A part \in SnapshotParts \ excluded :
              (part \notin PROJECT_ASSEMBLY_PARTS /\ ~IsAmmo(part))
              => (part \in ret.result <=> Cardinality(SnapshotFanOut(part)) > 1)

\* one such part is returned for its fan-out and another is left out for its
C9_Witness ==
    /\ ret.op = "get_strategic_solids"
    /\ \E p, q \in (SnapshotParts \ ExcludedParts(ret.include_rebar)) \ PROJECT_ASSEMBLY_PARTS :
          /\ ~IsAmmo(p) /\ ~IsAmmo(q)
          /\ p \in ret.result /\ Cardinality(SnapshotFanOut(p)) > 1
          /\ q \notin ret.result /\ Cardinality(SnapshotFanOut(q)) <= 1

IsRebarAmmo(part) == IsAmmo(part) /\ includes(part, <<"Rebar">>)

SnapshotPortable ==
    LET base == SnapshotBase
        foraged == SnapshotForaged
        forageDependent == SnapshotForageDependent
    IN {part \in SnapshotParts :
           /\ part \notin base
           /\ part # MWm
           /\ part \notin SnapshotExtracted
           /\ part \notin foraged
           /\ part \notin forageDependent
           /\ ~IsFluid(part)
           /\ ~includes(part, <<"Ingot">>)
           /\ ~IsAmmo(part)
           /\ Cardinality(SnapshotFanOut(part)) > 1}

(***************************************************************************)
(* C12 as stated: get_portable_intermediates() returns exactly the parts   *)
(* of AllParts that are not base, not MWm, not extracted, not foraged or   *)
(* forage-dependent, not a fluid, not an ingot and not ammo, and whose     *)
(* consuming recipes have more than one output part in total.              *)
(***************************************************************************)
C12_PortableIsFilteredFanOut ==
    ret.op = "get_portable_intermediates" =>
        /\ ret.result.kind = "ok"
        /\ ret.result.value = SnapshotPortable

(***************************************************************************)
(* C13 as stated: get_single_use_intermediates() returns exactly AllParts  *)
(* minus BaseParts minus StrategicSolids minus PortableIntermediates minus *)
(* AmmoParts minus MWm, and so shares no part with any of them.            *)
(***************************************************************************)
C13_SingleUseIsRemainder ==
    ret.op = "get_single_use_intermediates" =>
        /\ ret.result.kind = "ok"
        /\ ret.result.value =
              (((((SnapshotParts \ SnapshotBase) \ get_strategic_solids(FALSE))
                   \ SnapshotPortable) \ {p \in SnapshotParts : IsAmmo(p)}) \ {MWm})

\* the parts the recipe of an entry consumes: its ingredients, and with them
\* the power (MWm) that a machine with a load draws
EntryInputs(e) ==
    (IF e.row <= Len(RECIPES_DATA.recipes)
     THEN {RECIPES_DATA.recipes[e.row].ingredients[k].item :
              k \in 1..Len(RECIPES_DATA.recipes[e.row].ingredients)}
     ELSE Range(ObjKeys(POWER_RECIPES_DATA[e.row - Len(RECIPES_DATA.recipes)].val[e.place].val.in)))
    \cup (IF e.machine \in DOMAIN LOADS_DATA THEN {MWm} ELSE {})

\* the parts the recipe of an entry produces
EntryOutputs(e) == {e.rates[x].part : x \in 1..Len(e.rates)}

(***************************************************************************)
(* C14. A part of AllParts is in get_base_parts() exactly when no recipe   *)
(* has it among its outputs or it is on the extraction whitelist; a        *)
(* whitelisted part is base even when a recipe produces it.                *)
(***************************************************************************)
C14_BaseIsUnproducedOrExtracted ==
    ret.op = "get_base_parts" =>
        /\ ret.result \subseteq SnapshotParts
        /\ \A p \in SnapshotParts :
              p \in ret.result <=>
                 \/ \A e \in SnapshotEntries : p \notin EntryOutputs(e)
                 \/ p \in SnapshotExtracted

\* Scenario A: an extracted part that a recipe produces is base, and a produced
\* part off the whitelist is not
C14_Witness ==
    /\ ret.op = "get_base_parts"
    /\ \E p \in ret.result \cap SnapshotExtracted : \E e \in SnapshotEntries : p \in EntryOutputs(e)
    /\ \E p \in SnapshotParts \ ret.result : \E e \in SnapshotEntries : p \in EntryOutputs(e)

TimesListed(e, part, rate) ==
    IF part \in DOMAIN BY_OUTPUT /\ rate \in DOMAIN BY_OUTPUT[part]
    THEN Cardinality({i \in 1..Len(BY_OUTPUT[part][rate]) :
                         BY_OUTPUT[part][rate][i] = <<e.machine, e.name>>})
    ELSE 0

(***************************************************************************)
(* C16. After the index is built, each recipe is listed exactly once in    *)
(* the bucket ByOutput[o][a] of every output part o it declares at rate a, *)
(* and in no bucket of o at another rate.                                  *)
(***************************************************************************)
C16_OneBucketPerOutput ==
    pc # "load" =>
        \A e \in SnapshotEntries : \A x \in 1..Len(e.rates) :
            /\ TimesListed(e, e.rates[x].part, e.rates[x].rate) = 1
            /\ \A b \in DOMAIN BY_OUTPUT[e.rates[x].part] :
                  b # e.rates[x].rate => TimesListed(e, e.rates[x].part, b) = 0

\* two recipes of the rows share a bucket, and their part has a second bucket
C16_Witness ==
    /\ pc = "ready"
    /\ \E part \in DOMAIN BY_OUTPUT :
          /\ Cardinality(DOMAIN BY_OUTPUT[part]) > 1
          /\ \E a \in DOMAIN BY_OUTPUT[part] : Len(BY_OUTPUT[part][a]) > 1
          /\ part # MWm

\* the names that two recipes of the snapshot share
SharedNames ==
    {e.name : e \in {x \in SnapshotEntries :
                        \E y \in SnapshotEntries : y # x /\ y.name = x.name}}

(***************************************************************************)
(* C17 as stated: building the index from a snapshot in which two recipes  *)
(* share a name fails and leaves no index behind, so that no recipe under  *)
(* that name is overwritten in AllRecipes and still listed in ByOutput or  *)
(* ByMachine.                                                              *)
(***************************************************************************)
C17_SharedNameLeavesNoIndex ==
    (pc # "load" /\ SharedNames # {}) =>
        /\ BY_OUTPUT = EmptyMap
        /\ BY_MACHINE = <<>>
        /\ ALL_RECIPES = <<>>

\* the Recipe objects that initialization registered: those of _BY_MACHINE, which
\* keeps a recipe that _ALL_RECIPES has lost to a later one of its name
RegisteredRecipes ==
    UNION {{m.val[j].val : j \in 1..Len(m.val)} : m \in Range(BY_MACHINE)}
    \cup {ALL_RECIPES[i].val : i \in 1..Len(ALL_RECIPES)}

(***************************************************************************)
(* C18. After initialization every key of ByOutput and every input and     *)
(* output of a registered Recipe, the power input added for a machine with *)
(* a load included, is an element of AllParts.                             *)
(***************************************************************************)
C18_IndexedPartsInAllParts ==
    pc # "load" =>
        /\ DOMAIN BY_OUTPUT \subseteq Range(ALL_PARTS)
        /\ \A recipe \in RegisteredRecipes :
              /\ Range(ObjKeys(recipe.inputs)) \subseteq Range(ALL_PARTS)
              /\ Range(ObjKeys(recipe.outputs)) \subseteq Range(ALL_PARTS)

\* a recipe of a row is registered with the power of its machine among its
\* inputs, which the row does not list
C18_Witness ==
    /\ pc = "ready"
    /\ \E recipe \in RegisteredRecipes :
          /\ recipe.machine \in DOMAIN LOADS_DATA
          /\ ObjHas(recipe.inputs, MWm)
          /\ \E e \in SnapshotEntries :
                e.machine = recipe.machine /\ e.row <= Len(RECIPES_DATA.recipes)
    /\ \A i \in 1..Len(RECIPES_DATA.recipes) :
          \A k \in 1..Len(RECIPES_DATA.recipes[i].ingredients) :
              RECIPES_DATA.recipes[i].ingredients[k].item # MWm

\* the [machine, name] pairs of a list of [recipe_name, recipe]
ListedPairs(list) == {<<list[i][2].machine, list[i][1]>> : i \in 1..Len(list)}

(***************************************************************************)
(* C19. get_recipes_for(output, enablementSet) returns, grouped by rate,   *)
(* exactly the recipes that produce the output and whose name is in the    *)
(* enablement set, each once; no enablement set enables every recipe, an   *)
(* empty one enables none, and an output that no recipe produces yields    *)
(* the empty mapping.                                                      *)
(***************************************************************************)
C19_RecipesForIsEnabledProducers ==
    ret.op = "get_recipes_for" =>
        LET producers == EnabledProducers(ret.output, ret.enablement_set)
        IN /\ DOMAIN ret.result = EnabledRates(ret.output, ret.enablement_set)
           /\ \A a \in DOMAIN ret.result :
                 /\ ListedPairs(ret.result[a]) =
                       {<<e.machine, e.name>> : e \in {p \in producers : ProducesAt(p, ret.output, a)}}
                 /\ Cardinality(ListedPairs(ret.result[a])) = Len(ret.result[a])
           /\ ret.enablement_set.null =>
                 producers = {e \in SnapshotEntries : ret.output \in EntryOutputs(e)}
           /\ (~ret.enablement_set.null /\ ret.enablement_set.names = {}) => ret.result = EmptyMap
           /\ (\A e \in SnapshotEntries : ret.output \notin EntryOutputs(e)) => ret.result = EmptyMap

\* an enablement set of one machine's recipes leaves out a rate and, at another
\* rate, one of two producers
C19_Witness ==
    /\ ret.op = "get_recipes_for"
    /\ ~ret.enablement_set.null
    /\ \E a \in DOMAIN ret.result, e \in EnabledProducers(ret.output, AllEnabled) :
          /\ ProducesAt(e, ret.output, a)
          /\ <<e.machine, e.name>> \notin ListedPairs(ret.result[a])
    /\ \E b \in EnabledRates(ret.output, AllEnabled) : b \notin DOMAIN ret.result

C21_QueriesLeaveCatalogUnchanged ==
    [][pc # "load" =>
          /\ UNCHANGED <<RECIPES_DATA, tables>>
          /\ ret.op = "get_forage_dependent_parts" => get_forage_dependent_parts = ret.result]_vars

\* a call of get_forage_dependent_parts has returned two parts or more, on tables
\* that hold recipes of the rows
C21_Witness ==
    /\ pc = "returned"
    /\ ret.op = "get_forage_dependent_parts"
    /\ Cardinality(ret.result) >= 2
    /\ Len(RECIPES_DATA.recipes) >= 2

(***************************************************************************)
(* C22. A caller that writes into a value a query returned cannot change   *)
(* the result of a later query.  Stated on the results: get_recipes_using  *)
(* lists only recipes whose row of the snapshot consumes the input, and    *)
(* every Recipe of get_all_recipes has the inputs of its row.  A caller    *)
(* that writes recipe.inputs[part] into a Recipe of get_recipes_using      *)
(* writes into the object _ALL_RECIPES holds, and both later results show  *)
(* the part.                                                               *)
(***************************************************************************)
C22_LaterResultsIgnoreCallerWrites ==
    /\ ret.op = "get_recipes_using" =>
          \A i \in 1..Len(ret.result) :
              \E e \in SnapshotEntries :
                  /\ e.name = ret.result[i][1]
                  /\ ret.input \in EntryInputs(e)
    /\ ret.op = "get_all_recipes" =>
          \A k \in 1..Len(ret.result) :
              \E e \in SnapshotEntries :
                  /\ e.name = ret.result[k].key
                  /\ Range(ObjKeys(ret.result[k].val.inputs)) = EntryInputs(e)

\* the entries of an object, without their order
ObjEntries(o) == {<<o[i].key, o[i].val>> : i \in 1..Len(o)}

\* the raw inputs of a recipe: the "in" object of the transformed data
RawInputs(machine, recipe_name) ==
    ObjGet(ObjGet(TRANSFORMED_RECIPES_DATA, machine), recipe_name).in

\* the raw inputs with MWm at the raw MWm rate (0 if absent) plus the machine's load
LoadedInputs(machine, recipe_name) ==
    LET raw == ObjEntries(RawInputs(machine, recipe_name))
        rawMWm == IF \E e \in raw : e[1] = MWm THEN (CHOOSE e \in raw : e[1] = MWm)[2] ELSE 0
    IN IF machine \in DOMAIN LOADS_DATA
       THEN {e \in raw : e[1] # MWm} \cup {<<MWm, rawMWm + LOADS_DATA[machine]>>}
       ELSE raw

\* the [recipe_name, recipe] pairs of a result of get_recipes_for
PairsOf(recipes_for) == UNION {Range(recipes_for[a]) : a \in DOMAIN recipes_for}

\* the Recipes of get_all_recipes, get_all_recipes_by_machine and get_recipes_using
\* carry the load
RegisteredCarryLoad ==
    /\ ret.op = "get_all_recipes" =>
          \A k \in 1..Len(ret.result) :
              ObjEntries(ret.result[k].val.inputs)
                  = LoadedInputs(ret.result[k].val.machine, ret.result[k].key)
    /\ ret.op = "get_all_recipes_by_machine" =>
          \A m \in 1..Len(ret.result) : \A j \in 1..Len(ret.result[m].val) :
              ObjEntries(ret.result[m].val[j].val.inputs)
                  = LoadedInputs(ret.result[m].key, ret.result[m].val[j].key)
    /\ ret.op = "get_recipes_using" =>
          \A i \in 1..Len(ret.result) :
              ObjEntries(ret.result[i][2].inputs)
                  = LoadedInputs(ret.result[i][2].machine, ret.result[i][1])

(***************************************************************************)
(* C23, as stated.  Every Recipe a query hands out for a machine with a    *)
(* load carries MWm at the raw rate plus the load, the Recipes of          *)
(* get_recipes_for and get_recipe_for included.                            *)
(***************************************************************************)
C23_EveryHandedOutRecipeCarriesLoad ==
    /\ RegisteredCarryLoad
    /\ ret.op = "get_recipes_for" =>
          \A p \in PairsOf(ret.result) :
              ObjEntries(p[2].inputs) = LoadedInputs(p[2].machine, p[1])
    /\ (ret.op = "get_recipe_for" /\ ret.result.kind = "ok") =>
          ObjEntries(ret.result.recipe.inputs)
              = LoadedInputs(ret.result.recipe.machine, ret.result.recipe_name)

(***************************************************************************)
(* C23, amended.  The Recipes of get_all_recipes,                          *)
(* get_all_recipes_by_machine and get_recipes_using carry MWm at the raw   *)
(* rate plus the machine's load when the machine has a load; the Recipes   *)
(* of get_recipes_for and get_recipe_for carry the raw inputs, without the *)
(* load.                                                                   *)
(***************************************************************************)
C23_RegisteredCarryLoadRawOnesDoNot ==
    /\ RegisteredCarryLoad
    /\ ret.op = "get_recipes_for" =>
          \A p \in PairsOf(ret.result) : p[2].inputs = RawInputs(p[2].machine, p[1])
    /\ (ret.op = "get_recipe_for" /\ ret.result.kind = "ok") =>
          ret.result.recipe.inputs
              = RawInputs(ret.result.recipe.machine, ret.result.recipe_name)

\* get_recipes_for returned a Recipe of a machine with a load, whose inputs lack
\* the MWm that get_all_recipes holds under the same name
C23_Witness ==
    /\ ret.op = "get_recipes_for"
    /\ \E p \in PairsOf(ret.result) :
          /\ p[2].machine \in DOMAIN LOADS_DATA
          /\ ~ObjHas(p[2].inputs, MWm)
          /\ ObjHas(get_all_recipes, p[1])
          /\ ObjGet(get_all_recipes, p[1]).machine = p[2].machine
          /\ ObjHas(ObjGet(get_all_recipes, p[1]).inputs, MWm)

\* find_recipe_name returns the name under which get_all_recipes and
\* get_all_recipes_by_machine hold the Recipe object
FindsRegisteredName ==
    ret.op = "find_recipe_name" =>
        /\ \A k \in 1..Len(get_all_recipes) :
              get_all_recipes[k].val = ret.recipe =>
                  ret.result = [kind |-> "ok", value |-> get_all_recipes[k].key]
        /\ \A m \in Range(get_all_recipes_by_machine) : \A j \in 1..Len(m.val) :
              m.val[j].val = ret.recipe =>
                  ret.result = [kind |-> "ok", value |-> m.val[j].key]

(***************************************************************************)
(* C24, as stated.  find_recipe_name returns n for the Recipe r that       *)
(* get_all_recipes() holds under n, and fails with NotFound for a Recipe   *)
(* that was never registered.                                              *)
(***************************************************************************)
C24_UnregisteredFailsNotFound ==
    /\ FindsRegisteredName
    /\ (ret.op = "find_recipe_name" /\ ret.recipe \notin RegisteredRecipes) =>
          ret.result.kind = "NotFound"

(***************************************************************************)
(* C24, amended.  find_recipe_name returns n for the Recipe r that         *)
(* get_all_recipes() holds under n, and returns undefined, without         *)
(* failing, for a Recipe object that was never registered, also when a     *)
(* registered Recipe has the same machine, inputs and outputs.             *)
(***************************************************************************)
C24_UnregisteredGivesUndefined ==
    /\ FindsRegisteredName
    /\ (ret.op = "find_recipe_name" /\ ret.recipe \notin RegisteredRecipes) =>
          ret.result = [kind |-> "undefined"]

\* find_recipe_name was called with a Recipe that get_recipes_for made, of a
\* machine and outputs that a registered Recipe has too
C24_Witness ==
    /\ ret.op = "find_recipe_name"
    /\ ret.recipe \notin RegisteredRecipes
    /\ \E r \in RegisteredRecipes :
          r.machine = ret.recipe.machine /\ r.outputs = ret.recipe.outputs
    /\ ret.result.kind = "undefined"

\* the part of AllParts that a raw name stands for: the last part of _ALL_PARTS
\* that equals it ignoring case, or the raw name itself when there is none
NormalName(raw) ==
    LET hits == {i \in 1..Len(ALL_PARTS) : toLowerCase(ALL_PARTS[i]) = toLowerCase(raw)}
    IN IF hits = {} THEN raw ELSE ALL_PARTS[Max(hits)]

(***************************************************************************)
(* C25. Name normalization never raises and maps a raw name to the         *)
(* last-registered part of AllParts that equals it ignoring case, or to    *)
(* the raw name itself when no part does; the rates stay with their names. *)
(***************************************************************************)
C25_NormalizationIsLastPartIgnoringCase ==
    /\ ret.op = "normalize_input_array" =>
          /\ Len(ret.result) = Len(ret.inputs)
          /\ \A i \in 1..Len(ret.inputs) :
                ret.result[i] = <<NormalName(ret.inputs[i][1]), ret.inputs[i][2]>>
    /\ ret.op = "normalize_material_names" =>
          /\ Range(ObjKeys(ret.result)) = {NormalName(k) : k \in Range(ObjKeys(ret.materials))}
          /\ ObjEntries(ret.result) \subseteq
                {<<NormalName(e[1]), e[2]>> : e \in ObjEntries(ret.materials)}
          /\ \A i, j \in 1..Len(ret.result) : ret.result[i].key = ret.result[j].key => i = j

\* a raw name in capitals was normalized while two parts of AllParts have its
\* lower-case spelling, and the result is the later of the two
C25_Witness ==
    /\ ret.op = "normalize_input_array"
    /\ ret.inputs[1][1] = <<"IRON", "PLATE">>
    /\ \E i, j \in 1..Len(ALL_PARTS) :
          /\ i < j
          /\ toLowerCase(ALL_PARTS[i]) = toLowerCase(ALL_PARTS[j])
          /\ toLowerCase(ALL_PARTS[j]) = <<"iron", "plate">>
          /\ ret.result[1][1] = ALL_PARTS[j]

\* the parts from which the parts of S are made, directly or through other parts
RECURSIVE TransitiveInputs(_)
TransitiveInputs(S) ==
    LET more == S \cup UNION {r.ins : r \in {x \in SnapshotRecipes : x.outs \cap S # {}}}
    IN IF more = S THEN S ELSE TransitiveInputs(more)

\* a non-foraged part is forage-dependent exactly when it is outside the least
\* available set
ForageDependentIsUnavailable ==
    LET foraged == SnapshotForaged
        least == LeastAvailable
    IN \A p \in SnapshotParts :
           p \in ret.result <=> (p \notin foraged /\ p \notin least)

SchematicRecipeNames ==
    UNION {UNION {Range(SCHEMATIC_RECIPES_LOOKUP[tier][s].val) :
                     s \in 1..Len(SCHEMATIC_RECIPES_LOOKUP[tier])} :
           tier \in DOMAIN SCHEMATIC_RECIPES_LOOKUP}

(***************************************************************************)
(* C27. Every recipe name recorded in _SCHEMATIC_RECIPES_LOOKUP or in      *)
(* _UNLISTED_RECIPES is a key of get_all_recipes(), also for a row flagged *)
(* inMachine that lists no production machine.                             *)
(***************************************************************************)
C27_RecordedNamesAreRecipes ==
    pc # "load" =>
        \A recipe_name \in SchematicRecipeNames \cup UNLISTED_RECIPES :
            ObjHas(get_all_recipes, recipe_name)

\* availableWithoutForaging after n passes of the loop of get_forage_dependent_parts
RECURSIVE AvailableAfter(_)
AvailableAfter(n) ==
    IF n = 0 THEN EXTRACTED_PARTS
    ELSE ForagePass(AvailableAfter(n - 1), get_foraged_parts, 1)

(***************************************************************************)
(* C28. The loop of get_forage_dependent_parts() ends; the available set   *)
(* only grows from pass to pass, every pass but the last adds a part, the  *)
(* last adds none, and the passes, the last included, are at most          *)
(* |AllParts|.                                                             *)
(***************************************************************************)
C28_LoopEndsWithinAllPartsPasses ==
    ret.op = "get_forage_dependent_parts" =>
        LET loop == ForageLoop(EXTRACTED_PARTS, get_foraged_parts, 0)
        IN /\ loop.passes >= 1
           /\ loop.passes <= Len(ALL_PARTS)
           /\ \A n \in 1..loop.passes : AvailableAfter(n - 1) \subseteq AvailableAfter(n)
           /\ \A n \in 1..(loop.passes - 1) : AvailableAfter(n - 1) # AvailableAfter(n)
           /\ AvailableAfter(loop.passes) = AvailableAfter(loop.passes - 1)
           /\ loop.available = AvailableAfter(loop.passes)
           /\ ret.result = (Range(ALL_PARTS) \ loop.available) \ get_foraged_parts

\* a call whose loop made two passes that each added a part, and a last one
C28_Witness ==
    /\ ret.op = "get_forage_dependent_parts"
    /\ AvailableAfter(0) # AvailableAfter(1)
    /\ AvailableAfter(1) # AvailableAfter(2)
    /\ AvailableAfter(2) = AvailableAfter(3)

(***************************************************************************)
(* C29. In a mapping returned by get_recipes_for(output, enablementSet)    *)
(* every rate maps to a non-empty list, and every [name, recipe] listed    *)
(* under a rate is enabled and has outputs[output] equal to the rate; so   *)
(* get_recipe_for, on a mapping that is not empty, finds a first element   *)
(* under the greatest rate and returns it.                                 *)
(***************************************************************************)
C29_EveryRateListsEnabledProducers ==
    /\ ret.op = "get_recipes_for" =>
          \A a \in DOMAIN ret.result :
              /\ Len(ret.result[a]) >= 1
              /\ \A i \in 1..Len(ret.result[a]) :
                    /\ ret.enablement_set.null \/ ret.result[a][i][1] \in ret.enablement_set.names
                    /\ ObjHas(ret.result[a][i][2].outputs, ret.output)
                    /\ ObjGet(ret.result[a][i][2].outputs, ret.output) = a
    /\ ret.op = "get_recipe_for" =>
          LET recipes_for_output == get_recipes_for(ret.output, ret.enablement_set)
          IN IF DOMAIN recipes_for_output = {}
             THEN ret.result.kind = "TypeError"
             ELSE /\ ret.result.kind = "ok"
                  /\ \A a \in DOMAIN recipes_for_output : a <= ret.result.amount
                  /\ <<ret.result.recipe_name, ret.result.recipe>>
                        = recipes_for_output[ret.result.amount][1]

\* an enablement set left one rate of the output without a recipe, the mapping
\* has the other rate only
C29_Witness ==
    /\ ret.op = "get_recipes_for"
    /\ ~ret.enablement_set.null
    /\ DOMAIN ret.result # {}
    /\ ret.output \in DOMAIN BY_OUTPUT
    /\ DOMAIN BY_OUTPUT[ret.output] \ DOMAIN ret.result # {}

(***************************************************************************)
(* C30. get_portable_intermediates() returns a set, and the set is a       *)
(* subset of get_strategic_solids() called with its default flag.          *)
(***************************************************************************)
C30_PortableWithinStrategic ==
    ret.op = "get_portable_intermediates" =>
        /\ ret.result.kind = "ok"
        /\ ret.result.value \subseteq get_strategic_solids(FALSE)

=============================================================================
